---------------------------- MODULE Spec2Model ----------------------------
(***************************************************************************)
(* MIDI corpus pipeline of BurntBeatsV3:                                   *)
(*   server/comprehensive-midi-processor.py  (discover, analyze,           *)
(*                                            categorize, integrate)       *)
(*   server/fetch-missing-rhythms.py         (pattern identity, remote     *)
(*                                            reconciliation, download)    *)
(*   server/midi-validation.py               (validation, removal of       *)
(*                                            corrupt files)               *)
(*   server/fix-midi-filenames.py            (file name sanitizing)        *)
(* File names and paths are TLA+ strings; Python's str methods are         *)
(* operators over them.                                                    *)
(***************************************************************************)
EXTENDS Integers, Sequences, FiniteSets, TLC

VARIABLES
    \* categorize_midi_file, one call
    catName, catDir, catDrums, catTracks, catResult,
    \* _create_pattern_id as called by the local scan and by the remote scan
    idName, idLocal, idRemote,
    \* ComprehensiveMidiProcessor: the source tree, storage/midi, the object's
    \* fields, the two persisted files (with the catalog file as the run found
    \* it), and main's position
    disk, storage, discovered_files, processed_files, integration_report,
    reportFile, catalogFile, oldCatalog, plan, fileIdx, copyFailed,
    \* RhythmFetcher: the files on disk, the object's fields, the download
    \* loop, the persisted report, main's position, and the runs so far
    recFiles, remoteTree, existing_patterns, ocean82_patterns,
    missing_patterns, listing_errors, args_download, dlLimit, dlIdx, downloaded, failed,
    attempted, recReport,
    recPlan, runs, thisScan, lastScan,
    \* MidiValidator: the files under storage/midi, the catalog files missing,
    \* the object's report, the report file, main's position, the flags
    \* given, the files parsed and the files removed so far
    vFiles, vMissingCatalogs, validation_report, vReportFile, vPlan, vArgs,
    vParsed, vRemoved,
    \* MidiFilenamesFixer: the names of the files of the directory, the
    \* names a catalog file lists, the list being walked, the object's
    \* renamed_files, the report file, the script's position and its runs
    fixFiles, fixCatalog, midi_files, renamed_files, fixReportFile, fixPlan,
    fixRuns,
    \* the three analyzers: the tracks of the file given, and what
    \* ComprehensiveMidiProcessor.analyze_midi_file, _analyze_groove_midi and
    \* MidiCatalog.analyze_midi_file return for it
    midTracks, procAnalysis, grooveAnalysis, catMetadata,
    \* _detect_groove_style, one call: the name of the file and of its
    \* directory, the analysis given, and the result
    styName, styParent, styAnalysis, styResult

catVars == <<catName, catDir, catDrums, catTracks, catResult>>
idVars  == <<idName, idLocal, idRemote>>
procVars == <<disk, storage, discovered_files, processed_files,
              integration_report, reportFile, catalogFile, oldCatalog, plan,
              fileIdx, copyFailed>>
recVars == <<recFiles, remoteTree, existing_patterns, ocean82_patterns, missing_patterns,
             listing_errors, args_download, dlLimit, dlIdx, downloaded, failed, attempted,
             recReport, recPlan, runs, thisScan, lastScan>>
valVars == <<vFiles, vMissingCatalogs, validation_report, vReportFile, vPlan,
             vArgs, vParsed, vRemoved>>
fixVars == <<fixFiles, fixCatalog, midi_files, renamed_files, fixReportFile,
             fixPlan, fixRuns>>
anaVars == <<midTracks, procAnalysis, grooveAnalysis, catMetadata>>
styVars == <<styName, styParent, styAnalysis, styResult>>
vars    == <<catVars, idVars, procVars, recVars, valVars, fixVars, anaVars, styVars>>

None == "<none>"

\* a file not written, a record not made
Absent == [absent |-> TRUE]

(***************************************************************************)
(* Python str helpers                                                      *)
(***************************************************************************)

\* The methods are functions on STRING, with the operator of the Python
\* name applying them: a function is applied to the value of its argument.

\* k in s
str_contains[s \in STRING, k \in STRING] ==
    \E i \in 1..(Len(s) - Len(k) + 1) : SubSeq(s, i, i + Len(k) - 1) = k

Contains(s, k) == str_contains[s, k]

\* s.endswith(k)
str_endswith[s \in STRING, k \in STRING] ==
    /\ Len(s) >= Len(k)
    /\ SubSeq(s, Len(s) - Len(k) + 1, Len(s)) = k

EndsWith(s, k) == str_endswith[s, k]

\* s.replace(old, new): leftmost non-overlapping occurrences, old non-empty
str_replace[s \in STRING, old \in STRING, new \in STRING] ==
    IF Len(s) < Len(old) THEN s
    ELSE IF SubSeq(s, 1, Len(old)) = old
         THEN new \o str_replace[SubSeq(s, Len(old) + 1, Len(s)), old, new]
         ELSE SubSeq(s, 1, 1) \o str_replace[SubSeq(s, 2, Len(s)), old, new]

Replace(s, old, new) == str_replace[s, old, new]

\* s.split(d) for a one-character delimiter d: empty fields are kept; cur
\* is the field being read
SplitFrom[s \in STRING, d \in STRING, cur \in STRING] ==
    IF Len(s) = 0 THEN <<cur>>
    ELSE IF SubSeq(s, 1, 1) = d
         THEN <<cur>> \o SplitFrom[SubSeq(s, 2, Len(s)), d, ""]
         ELSE SplitFrom[SubSeq(s, 2, Len(s)), d, cur \o SubSeq(s, 1, 1)]

Split(s, d) == SplitFrom[s, d, ""]

UpperChars == "ABCDEFGHIJKLMNOPQRSTUVWXYZ"
LowerChars == "abcdefghijklmnopqrstuvwxyz"
DigitChars == "0123456789"

\* position of the one-character string c in alphabet, 0 when absent
IndexIn(c, alphabet) ==
    IF \E i \in 1..Len(alphabet) : SubSeq(alphabet, i, i) = c
    THEN CHOOSE i \in 1..Len(alphabet) : SubSeq(alphabet, i, i) = c
    ELSE 0

LowerChar(c) ==
    IF IndexIn(c, UpperChars) > 0
    THEN SubSeq(LowerChars, IndexIn(c, UpperChars), IndexIn(c, UpperChars))
    ELSE c

\* s.lower()
str_lower[s \in STRING] ==
    IF Len(s) = 0 THEN ""
    ELSE LowerChar(SubSeq(s, 1, 1)) \o str_lower[SubSeq(s, 2, Len(s))]

Lower(s) == str_lower[s]

\* s.isdigit() (ASCII names)
str_isdigit[s \in STRING] ==
    /\ Len(s) > 0
    /\ \A i \in 1..Len(s) : IndexIn(SubSeq(s, i, i), DigitChars) > 0

IsDigit(s) == str_isdigit[s]

\* int(s) for s.isdigit()
str_int[s \in STRING] ==
    IF Len(s) = 0 THEN 0
    ELSE 10 * str_int[SubSeq(s, 1, Len(s) - 1)]
         + (IndexIn(SubSeq(s, Len(s), Len(s)), DigitChars) - 1)

ToInt(s) == str_int[s]

\* str(n) for n >= 0
RECURSIVE ToStr(_)
ToStr(n) ==
    IF n < 10 THEN SubSeq(DigitChars, n + 1, n + 1)
    ELSE ToStr(n \div 10) \o SubSeq(DigitChars, (n % 10) + 1, (n % 10) + 1)

\* last position of the one-character string c in s, 0 when absent
str_rindex[s \in STRING, c \in STRING] ==
    IF \E i \in 1..Len(s) : SubSeq(s, i, i) = c
    THEN CHOOSE i \in 1..Len(s) :
            /\ SubSeq(s, i, i) = c
            /\ \A j \in (i + 1)..Len(s) : SubSeq(s, j, j) # c
    ELSE 0

LastIndexOf(s, c) == str_rindex[s, c]

\* Path(p).name
path_name[p \in STRING] == SubSeq(p, LastIndexOf(p, "/") + 1, Len(p))

PathName(p) == path_name[p]

\* Path(p).stem: the name without its last suffix; a leading or a trailing
\* dot starts no suffix
path_stem[p \in STRING] ==
    LET n == PathName(p)
        i == LastIndexOf(n, ".")
    IN  IF i > 1 /\ i < Len(n) THEN SubSeq(n, 1, i - 1) ELSE n

PathStem(p) == path_stem[p]

\* any(keyword in s for keyword in keywords)
AnyIn(keywords, s) == \E k \in keywords : Contains(s, k)

(***************************************************************************)
(* comprehensive-midi-processor.py: categorize_midi_file                   *)
(***************************************************************************)

GrooveKeywords == {"groove", "drum", "beat", "rhythm"}
ChordKeywords  == {"chord", "progression", "harmony"}
MelodyKeywords == {"melody", "lead", "tune"}
SampleKeywords == {"sample", "loop"}

\* the same rules with the track-count test taken first
categorize_tracks_first(analysis) ==
    LET filename == Lower(analysis.filename)
        path     == Lower(analysis.path)
    IN  IF analysis.num_tracks = 1 THEN "melodies"
        ELSE IF AnyIn(GrooveKeywords, filename) THEN "groove_patterns"
        ELSE IF AnyIn(ChordKeywords, filename) THEN "chord_progressions"
        ELSE IF AnyIn(MelodyKeywords, filename) THEN "melodies"
        ELSE IF AnyIn(SampleKeywords, path) THEN "samples"
        ELSE IF analysis.has_drums THEN "groove_patterns"
        ELSE "templates"

categorize_midi_file(analysis) ==
    LET filename == Lower(analysis.filename)
        path     == Lower(analysis.path)
    IN  IF AnyIn(GrooveKeywords, filename) THEN "groove_patterns"
        ELSE IF AnyIn(ChordKeywords, filename) THEN "chord_progressions"
        ELSE IF AnyIn(MelodyKeywords, filename) THEN "melodies"
        ELSE IF AnyIn(SampleKeywords, path) THEN "samples"
        ELSE IF analysis.has_drums THEN "groove_patterns"
        ELSE IF analysis.num_tracks = 1 THEN "melodies"
        ELSE IF analysis.num_tracks > 5 THEN "templates"
        ELSE "templates"

\* Inputs of the classifier runs
MaxTracks == 6

CatNames ==
    {"groove_funk_95.mid", "chords_Dm_jazz.mid", "lead_melody.mid",
     "funk_groove_drums.mid", "song.mid", "Harmony_Tune.mid", "take1.mid"}

CatDirs ==
    {"attached_assets", "attached_assets/drums", "uploads/samples",
     "mir-data/chords", "assets/Melody Loops"}

\* the analysis record of a file dir/name, as analyze_midi_file fills it
CatAnalysis ==
    [filename   |-> catName,
     path       |-> catDir \o "/" \o catName,
     has_drums  |-> catDrums,
     num_tracks |-> catTracks]

CatIdle ==
    /\ catName = None /\ catDir = None /\ catDrums = FALSE
    /\ catTracks = 0 /\ catResult = None

CatInit ==
    /\ catName \in CatNames
    /\ catDir \in CatDirs
    /\ catDrums \in BOOLEAN
    /\ catTracks \in 0..MaxTracks
    /\ catResult = None

Categorize ==
    /\ catResult = None
    /\ catResult' = categorize_midi_file(CatAnalysis)
    /\ UNCHANGED <<catName, catDir, catDrums, catTracks, idVars, procVars, recVars, valVars, fixVars, anaVars, styVars>>


(***************************************************************************)
(* fetch-missing-rhythms.py: pattern identity                              *)
(***************************************************************************)

StyleVocabulary == {"rock", "funk", "jazz", "latin", "blues", "reggae", "hiphop"}

\* hashlib.md5(s.encode()).hexdigest()[:8], kept symbolic: a function of s
\* whose value is no "{style}_{tempo}" string (hex digits hold no "_").
\* Collisions of the 32-bit prefix are not modelled.
ShortHash(s) == "md5:" \o s

IsTempoToken(part) == IsDigit(part) /\ 60 <= ToInt(part) /\ ToInt(part) <= 250

\* the token the loop over parts leaves in `tempo`: the last one matching
LoopTempo(parts) ==
    LET hits == {i \in 1..Len(parts) : IsTempoToken(parts[i])}
    IN  IF hits = {} THEN None
        ELSE parts[CHOOSE i \in hits : \A j \in hits : j <= i]

\* the token the loop leaves in `style`: the last vocabulary token that did
\* not take the tempo branch
LoopStyle(parts) ==
    LET hits == {i \in 1..Len(parts) :
                    ~IsTempoToken(parts[i]) /\ parts[i] \in StyleVocabulary}
    IN  IF hits = {} THEN None
        ELSE parts[CHOOSE i \in hits : \A j \in hits : j <= i]

\* _create_pattern_id without the len(parts) >= 3 guard
create_pattern_id_any_length(filename) ==
    LET cleaned == Replace(Replace(filename, "groove_", ""), ".mid", "")
        parts   == Split(cleaned, "_")
    IN  IF LoopTempo(parts) # None /\ LoopStyle(parts) # None
        THEN LoopStyle(parts) \o "_" \o LoopTempo(parts)
        ELSE ShortHash(cleaned)

create_pattern_id(filename) ==
    LET cleaned == Replace(Replace(filename, "groove_", ""), ".mid", "")
        parts   == Split(cleaned, "_")
    IN  IF /\ Len(parts) >= 3
           /\ LoopTempo(parts) # None
           /\ LoopStyle(parts) # None
        THEN LoopStyle(parts) \o "_" \o LoopTempo(parts)
        ELSE ShortHash(cleaned)

\* get_existing_patterns, for one local file: the identity of its lower-cased stem
local_pattern_id(name) == create_pattern_id(Lower(PathStem(name)))

\* _scan_repo_contents, for one listed file: the identity of the listed name
remote_pattern_id(name) == create_pattern_id(name)

\* File names of the identity runs: 1..MaxTokens tokens joined by "_", ".mid"
MaxTokens == 3

IdTokens == {"groove", "funk", "jazz", "Rock", "95", "120", "300", "a"}

RECURSIVE JoinTokens(_)
JoinTokens(ts) ==
    IF Len(ts) = 1 THEN ts[1]
    ELSE ts[1] \o "_" \o JoinTokens(Tail(ts))

IdNames ==
    {JoinTokens(ts) \o ".mid" :
        ts \in UNION {[1..n -> IdTokens] : n \in 1..MaxTokens}}

IdIdle == idName = None /\ idLocal = None /\ idRemote = None

IdInit == idName \in IdNames /\ idLocal = None /\ idRemote = None

\* the local scan meets a file of this name
ScanLocalName ==
    /\ idLocal = None
    /\ idLocal' = local_pattern_id(idName)
    /\ UNCHANGED <<idName, idRemote, catVars, procVars, recVars, valVars, fixVars, anaVars, styVars>>

\* the remote listing holds a file of this name
ScanRemoteName ==
    /\ idRemote = None
    /\ idRemote' = remote_pattern_id(idName)
    /\ UNCHANGED <<idName, idLocal, catVars, procVars, recVars, valVars, fixVars, anaVars, styVars>>

(***************************************************************************)
(* comprehensive-midi-processor.py: the processor                          *)
(***************************************************************************)

\* What a source file holds, as mido.MidiFile reads it: whether it parses,
\* and for a file that parses the tempo of its first set_tempo event in
\* hundredths of a BPM (round(bpm, 2); 12000 also when it has none), its
\* first time signature, its number of tracks, whether a sounding note is
\* on channel 9, the number of its note_on messages of velocity > 0 and its
\* length in milliseconds.  "" is a file of size 0.  "silent" is a file with
\* no sounding note, "blip" one shorter than 0.1 s.
Contents == {"lead-A", "lead-B", "drums", "garbage", ""}

FileFacts(content) ==
    CASE content = "lead-A" ->
            [parses |-> TRUE, bpm100 |-> 12000, time_signature |-> "4/4",
             num_tracks |-> 1, has_drums |-> FALSE,
             note_count |-> 8, length_ms |-> 4000]
      [] content = "lead-B" ->
            [parses |-> TRUE, bpm100 |-> 12050, time_signature |-> "4/4",
             num_tracks |-> 1, has_drums |-> FALSE,
             note_count |-> 8, length_ms |-> 4000]
      [] content = "drums" ->
            [parses |-> TRUE, bpm100 |-> 9500, time_signature |-> "6/8",
             num_tracks |-> 2, has_drums |-> TRUE,
             note_count |-> 16, length_ms |-> 2000]
      [] content = "silent" ->
            [parses |-> TRUE, bpm100 |-> 12000, time_signature |-> "4/4",
             num_tracks |-> 1, has_drums |-> FALSE,
             note_count |-> 0, length_ms |-> 2000]
      [] content = "blip" ->
            [parses |-> TRUE, bpm100 |-> 12000, time_signature |-> "4/4",
             num_tracks |-> 1, has_drums |-> FALSE,
             note_count |-> 1, length_ms |-> 50]
      [] content = "header" ->
            [parses |-> TRUE, bpm100 |-> 12000, time_signature |-> "4/4",
             num_tracks |-> 0, has_drums |-> FALSE,
             note_count |-> 0, length_ms |-> 0]
      [] OTHER ->
            [parses |-> FALSE, bpm100 |-> 0, time_signature |-> "",
             num_tracks |-> 0, has_drums |-> FALSE,
             note_count |-> 0, length_ms |-> 0]

\* discover_all_midi_files: search_paths and midi_extensions, in order
SearchPaths ==
    <<"attached_assets", "mir-data", "assets", "temp-dreamsound-repo",
      "uploads", "music Gen extra">>

MidiExtensions == <<".mid", ".midi", ".MID", ".MIDI">>

\* The paths a source file may be at in a run
SourcePaths ==
    {"attached_assets/a/lead.mid", "uploads/b/lead.mid",
     "mir-data/kit/Beat.MID", "assets/take.Mid"}

\* at most MaxFiles source files exist in one run
MaxFiles == 2

\* path is under search_paths[i]
UnderSearchPath(path, i) ==
    /\ Len(path) > Len(SearchPaths[i])
    /\ SubSeq(path, 1, Len(SearchPaths[i]) + 1) = SearchPaths[i] \o "/"

\* the (search path, extension) pass of the nested loops that finds path,
\* 0 when none does: rglob("*" + ext) matches the end of the name, by case
DiscoveryPass(path) ==
    LET hits == {<<i, e>> \in (1..Len(SearchPaths)) \X (1..Len(MidiExtensions)) :
                    /\ UnderSearchPath(path, i)
                    /\ EndsWith(PathName(path), MidiExtensions[e])}
    IN  {(h[1] - 1) * Len(MidiExtensions) + h[2] : h \in hits}

\* is_file() and st_size > 0
Discoverable(path) == disk[path] # None /\ disk[path] # ""

\* the lists one call of discover_all_midi_files may append: every
\* discoverable file once per pass that matches it, passes in loop order,
\* files of one pass in the order the directory walk yields them
DiscoveryOrders ==
    LET found == UNION {{<<q, path>> : q \in DiscoveryPass(path)} :
                           path \in {f \in SourcePaths : Discoverable(f)}}
        n == Cardinality(found)
    IN  {[i \in 1..n |-> f[i][2]] :
            f \in {g \in [1..n -> found] :
                       /\ \A i, j \in 1..n : i # j => g[i] # g[j]
                       /\ \A i, j \in 1..n : i < j => g[i][1] <= g[j][1]}}

\* analyze_midi_file on a file of the given content: the analysis record,
\* or the error record when the parse raises
AnalysisOf(midi_path, content) ==
    LET facts == FileFacts(content)
    IN  IF facts.parses
        THEN [filename        |-> PathName(midi_path),
              path            |-> midi_path,
              num_tracks      |-> facts.num_tracks,
              has_drums       |-> facts.has_drums,
              estimated_tempo |-> facts.bpm100,
              time_signature  |-> facts.time_signature]
        ELSE [error    |-> "parse",
              filename |-> PathName(midi_path),
              path     |-> midi_path]

analyze_midi_file(midi_path) == AnalysisOf(midi_path, disk[midi_path])

IsError(analysis) == "error" \in DOMAIN analysis

\* integrate_midi_file, lines 219-242: the target path
TargetPath(midi_path, analysis, category) ==
    LET tempo    == analysis.estimated_tempo \div 100
        time_sig == Replace(analysis.time_signature, "/", "-")
        tracks   == analysis.num_tracks
        new_filename ==
            category \o "_" \o PathStem(midi_path) \o "_" \o ToStr(tempo)
              \o "bpm_" \o time_sig \o "_" \o ToStr(tracks) \o "tracks.mid"
        target_dir ==
            IF category = "groove_patterns"
            THEN IF tempo < 80 THEN "storage/midi/groove/categorized/slow"
                 ELSE IF tempo < 120 THEN "storage/midi/groove/categorized/medium"
                 ELSE "storage/midi/groove/categorized/fast"
            ELSE "storage/midi/templates/" \o Replace(category, "_", "-")
    IN  target_dir \o "/" \o new_filename

integration_info(midi_path, analysis, category) ==
    [original_path   |-> midi_path,
     integrated_path |-> TargetPath(midi_path, analysis, category),
     category        |-> category,
     analysis        |-> analysis]

Categories ==
    {"groove_patterns", "chord_progressions", "melodies", "templates", "samples"}

\* main: the calls it makes for the flags given
Flags == {"discover", "process", "catalog", "all"}

MainPlan(flags) ==
    IF "all" \in flags \/ flags \cap {"discover", "process", "catalog"} = {}
    THEN <<"discover", "process_all", "catalog">>
    ELSE (IF "discover" \in flags THEN <<"discover">> ELSE <<>>)
         \o (IF "process" \in flags THEN <<"discover", "process_all">> ELSE <<>>)
         \o (IF "catalog" \in flags THEN <<"catalog">> ELSE <<>>)

ProcIdle ==
    /\ disk = <<>> /\ storage = <<>> /\ discovered_files = <<>>
    /\ processed_files = <<>> /\ integration_report = <<>>
    /\ reportFile = Absent /\ catalogFile = Absent /\ oldCatalog = Absent
    /\ plan = <<>> /\ fileIdx = 0 /\ copyFailed = {}

\* comprehensive_midi_catalog.json as an earlier run left it, on other files
PreviousCatalog ==
    [total_files |-> 2,
     categories  |-> ("samples" :> 2),
     tempo_distribution |-> ("200-209" :> 2),
     time_signature_distribution |-> ("3/4" :> 2),
     track_count_distribution |-> ("3 tracks" :> 1) @@ ("4 tracks" :> 1)]

\* __init__, and the files the run starts with
ProcInit ==
    /\ disk \in {d \in [SourcePaths -> Contents \cup {None}] :
                    Cardinality({q \in SourcePaths : d[q] # None}) <= MaxFiles}
    /\ storage = <<>>
    /\ discovered_files = <<>>
    /\ processed_files = <<>>
    /\ integration_report =
          [discovered |-> <<>>, processed |-> <<>>, errors |-> <<>>,
           categories |-> [c \in Categories |-> <<>>]]
    /\ reportFile = Absent
    /\ catalogFile \in {Absent, PreviousCatalog}
    /\ oldCatalog = catalogFile
    /\ plan \in {MainPlan(f) : f \in SUBSET Flags}
    /\ fileIdx = 0
    /\ copyFailed = {}

\* discover_all_midi_files
Discover ==
    /\ plan # <<>> /\ Head(plan) = "discover"
    /\ \E found \in DiscoveryOrders :
          discovered_files' = discovered_files \o found
    /\ plan' = Tail(plan)
    /\ UNCHANGED <<disk, storage, processed_files, integration_report,
                   reportFile, catalogFile, oldCatalog, fileIdx, copyFailed,
                   catVars, idVars, recVars, valVars, fixVars, anaVars, styVars>>

\* process_all_files is entered: the loop stands before its first file
StartProcessing ==
    /\ plan # <<>> /\ Head(plan) = "process_all" /\ fileIdx = 0
    /\ fileIdx' = 1
    /\ UNCHANGED <<disk, storage, discovered_files, processed_files,
                   integration_report, reportFile, catalogFile, oldCatalog,
                   plan, copyFailed, catVars, idVars, recVars, valVars, fixVars, anaVars, styVars>>

\* one pass of the loop, with no try/except around the file's work: the
\* exception of a file that fails ends process_all_files and main
ProcessFile_unguarded ==
    /\ plan # <<>> /\ Head(plan) = "process_all"
    /\ fileIdx >= 1 /\ fileIdx <= Len(discovered_files)
    /\ LET midi_file == discovered_files[fileIdx]
           analysis  == analyze_midi_file(midi_file)
           category  == categorize_midi_file(analysis)
           info      == integration_info(midi_file, analysis, category)
       IN  \E copy_ok \in BOOLEAN :
              IF IsError(analysis) \/ ~copy_ok
              THEN /\ plan' = <<>>
                   /\ fileIdx' = fileIdx + 1
                   /\ UNCHANGED <<storage, processed_files, integration_report,
                                  copyFailed>>
              ELSE /\ storage' = (info.integrated_path :> disk[midi_file]) @@ storage
                   /\ processed_files' = Append(processed_files, info)
                   /\ integration_report' =
                         [integration_report EXCEPT
                            !.discovered = Append(@, analysis),
                            !.categories[category] = Append(@, info),
                            !.processed = Append(@, info)]
                   /\ fileIdx' = fileIdx + 1
                   /\ UNCHANGED <<plan, copyFailed>>
    /\ UNCHANGED <<disk, discovered_files, reportFile, catalogFile,
                   oldCatalog, catVars, idVars, recVars, valVars, fixVars, anaVars, styVars>>

\* one pass of the loop of process_all_files: analyze, categorize and
\* integrate discovered_files[fileIdx].  shutil.copy2 may raise (copy_ok).
ProcessFile ==
    /\ plan # <<>> /\ Head(plan) = "process_all"
    /\ fileIdx >= 1 /\ fileIdx <= Len(discovered_files)
    /\ LET midi_file == discovered_files[fileIdx]
           analysis  == analyze_midi_file(midi_file)
       IN  IF IsError(analysis)
           THEN /\ integration_report' =
                      [integration_report EXCEPT !.discovered = Append(@, analysis)]
                /\ UNCHANGED <<storage, processed_files, copyFailed>>
           ELSE LET category == categorize_midi_file(analysis)
                    info     == integration_info(midi_file, analysis, category)
                IN  \E copy_ok \in BOOLEAN :
                       IF copy_ok
                       THEN /\ storage' =
                                 (info.integrated_path :> disk[midi_file]) @@ storage
                            /\ processed_files' = Append(processed_files, info)
                            /\ integration_report' =
                                  [integration_report EXCEPT
                                     !.discovered = Append(@, analysis),
                                     !.categories[category] = Append(@, info),
                                     !.processed = Append(@, info)]
                            /\ UNCHANGED copyFailed
                       ELSE /\ integration_report' =
                                  [integration_report EXCEPT
                                     !.discovered = Append(@, analysis),
                                     !.errors = Append(@,
                                        [file     |-> midi_file,
                                         error    |-> "copy",
                                         category |-> category])]
                            /\ copyFailed' = copyFailed \cup {fileIdx}
                            /\ UNCHANGED <<storage, processed_files>>
    /\ fileIdx' = fileIdx + 1
    /\ UNCHANGED <<disk, discovered_files, reportFile, catalogFile,
                   oldCatalog, plan, catVars, idVars, recVars, valVars, fixVars, anaVars, styVars>>

\* the end of process_all_files: _save_integration_report
SaveReport ==
    /\ plan # <<>> /\ Head(plan) = "process_all"
    /\ fileIdx = Len(discovered_files) + 1
    /\ reportFile' = integration_report
    /\ plan' = Tail(plan)
    /\ UNCHANGED <<disk, storage, discovered_files, processed_files,
                   integration_report, catalogFile, oldCatalog, fileIdx,
                   copyFailed, catVars, idVars, recVars, valVars, fixVars, anaVars, styVars>>

\* the counts generate_catalog's loop builds, keys[i] being the key of
\* processed_files[i]: each key that occurs, with the number of its entries
Distribution(keys) ==
    [k \in {keys[i] : i \in 1..Len(keys)} |->
        Cardinality({i \in 1..Len(keys) : keys[i] = k})]

TempoRange(info) ==
    LET tempo == info.analysis.estimated_tempo \div 100
    IN  ToStr((tempo \div 10) * 10) \o "-" \o ToStr((tempo \div 10) * 10 + 9)

TrackRange(info) == ToStr(info.analysis.num_tracks) \o " tracks"

\* the catalog this run's entries give
BuildCatalog ==
    [total_files |-> Len(processed_files),
     categories  |->
         Distribution([i \in 1..Len(processed_files) |->
                          processed_files[i].category]),
     tempo_distribution |->
         Distribution([i \in 1..Len(processed_files) |->
                          TempoRange(processed_files[i])]),
     time_signature_distribution |->
         Distribution([i \in 1..Len(processed_files) |->
                          processed_files[i].analysis.time_signature]),
     track_count_distribution |->
         Distribution([i \in 1..Len(processed_files) |->
                          TrackRange(processed_files[i])])]

\* counts a added to counts b, key by key
MergeCounts(a, b) ==
    [k \in DOMAIN a \cup DOMAIN b |->
        (IF k \in DOMAIN a THEN a[k] ELSE 0) + (IF k \in DOMAIN b THEN b[k] ELSE 0)]

\* generate_catalog reading the catalog file first and adding to it
GenerateCatalog_merging ==
    /\ plan # <<>> /\ Head(plan) = "catalog"
    /\ catalogFile' =
          IF catalogFile = Absent THEN BuildCatalog
          ELSE [total_files |-> catalogFile.total_files + BuildCatalog.total_files,
                categories  |->
                    MergeCounts(catalogFile.categories, BuildCatalog.categories),
                tempo_distribution |->
                    MergeCounts(catalogFile.tempo_distribution,
                                BuildCatalog.tempo_distribution),
                time_signature_distribution |->
                    MergeCounts(catalogFile.time_signature_distribution,
                                BuildCatalog.time_signature_distribution),
                track_count_distribution |->
                    MergeCounts(catalogFile.track_count_distribution,
                                BuildCatalog.track_count_distribution)]
    /\ plan' = Tail(plan)
    /\ UNCHANGED <<disk, storage, discovered_files, processed_files,
                   integration_report, reportFile, oldCatalog, fileIdx,
                   copyFailed, catVars, idVars, recVars, valVars, fixVars, anaVars, styVars>>

\* generate_catalog: the catalog is built from processed_files and written
\* over the file (open(catalog_path, 'w'))
GenerateCatalog ==
    /\ plan # <<>> /\ Head(plan) = "catalog"
    /\ catalogFile' = BuildCatalog
    /\ plan' = Tail(plan)
    /\ UNCHANGED <<disk, storage, discovered_files, processed_files,
                   integration_report, reportFile, oldCatalog, fileIdx,
                   copyFailed, catVars, idVars, recVars, valVars, fixVars, anaVars, styVars>>

(***************************************************************************)
(* fetch-missing-rhythms.py: the reconciler                                *)
(***************************************************************************)

\* the search paths with the download directory scanned as well
LocalSearchPaths_with_downloads ==
    <<"storage/midi/groove-dataset", "storage/midi/templates",
      "attached_assets", "mir-data", "storage/midi/new-patterns">>

\* get_existing_patterns: search_paths
LocalSearchPaths ==
    <<"storage/midi/groove-dataset", "storage/midi/templates",
      "attached_assets", "mir-data">>

NewPatternsPath == "storage/midi/new-patterns"

\* path lies under directory dir
Under(path, dir) ==
    /\ Len(path) > Len(dir)
    /\ SubSeq(path, 1, Len(dir) + 1) = dir \o "/"

\* the files search_path.rglob("*.mid") yields over all search paths
ScannedFiles(files, searchPaths) ==
    {f \in files :
        /\ \E i \in 1..Len(searchPaths) : Under(f, searchPaths[i])
        /\ EndsWith(PathName(f), ".mid")}

\* The remote repository: the listing of each directory, "" the root
RemoteTree ==
    [d \in {"", "rock", "jazz"} |->
        CASE d = ""     -> <<[type |-> "file", name |-> "funk_a_95.mid"],
                             [type |-> "dir",  name |-> "rock"],
                             [type |-> "file", name |-> "README.md"],
                             [type |-> "dir",  name |-> "jazz"]>>
          [] d = "rock" -> <<[type |-> "file", name |-> "rock_b_140.mid"]>>
          [] d = "jazz" -> <<[type |-> "file", name |-> "jazz_c_110.mid"]>>]

\* A repository whose one file has a name in mixed case
MixedCaseTree ==
    [d \in {""} |-> <<[type |-> "file", name |-> "Latin_x_80.mid"]>>]

\* The repositories a run may meet
RemoteTrees == {RemoteTree, MixedCaseTree}

\* the sub-directories of a repository
DirsOf(tree) == DOMAIN tree \ {""}

\* what one item of a listing adds when it is no directory to be entered
ItemPatterns(item, path) ==
    IF item.type = "file" /\ EndsWith(item.name, ".mid")
    THEN <<[name       |-> item.name,
            path       |-> path,
            pattern_id |-> remote_pattern_id(item.name)]>>
    ELSE <<>>

\* the traversal with the try/except around the whole loop: the listing
\* request that raises ends the scan of the listing it was found in
RECURSIVE scan_repo_contents_unguarded(_, _, _, _, _)
scan_repo_contents_unguarded(tree, contents, path_prefix, failDirs, hangDir) ==
    IF contents = <<>> THEN [patterns |-> <<>>, warned |-> {}, hung |-> FALSE]
    ELSE LET item == Head(contents)
             path == IF path_prefix # "" THEN path_prefix \o "/" \o item.name
                     ELSE item.name
             here ==
               IF item.type = "dir" /\ path = hangDir
               THEN [patterns |-> <<>>, warned |-> {}, hung |-> TRUE]
               ELSE IF item.type = "dir" /\ path \in failDirs
               THEN [patterns |-> <<>>, warned |-> {path}, hung |-> FALSE]
               ELSE IF item.type = "dir"
               THEN scan_repo_contents_unguarded(tree, tree[path], path,
                                                 failDirs, hangDir)
               ELSE [patterns |-> ItemPatterns(item, path), warned |-> {},
                     hung |-> FALSE]
             rest == scan_repo_contents_unguarded(tree, Tail(contents),
                                                  path_prefix, failDirs, hangDir)
         IN  IF here.hung \/ (item.type = "dir" /\ path \in failDirs)
             THEN here
             ELSE [patterns |-> here.patterns \o rest.patterns,
                   warned   |-> here.warned \cup rest.warned,
                   hung     |-> rest.hung]

\* _scan_repo_contents(contents, path_prefix): the pattern_info records it
\* appends and the directories it logs a warning for.  The request for a
\* directory in failDirs raises; the request for hangDir never returns
\* (requests.get is called without a timeout), and the scan stands there.
RECURSIVE scan_repo_contents(_, _, _, _, _)
scan_repo_contents(tree, contents, path_prefix, failDirs, hangDir) ==
    IF contents = <<>> THEN [patterns |-> <<>>, warned |-> {}, hung |-> FALSE]
    ELSE LET item == Head(contents)
             path == IF path_prefix # "" THEN path_prefix \o "/" \o item.name
                     ELSE item.name
             here ==
               IF item.type = "dir" /\ path = hangDir
               THEN [patterns |-> <<>>, warned |-> {}, hung |-> TRUE]
               ELSE IF item.type = "dir" /\ path \in failDirs
               THEN [patterns |-> <<>>, warned |-> {path}, hung |-> FALSE]
               ELSE IF item.type = "dir"
               THEN scan_repo_contents(tree, tree[path], path, failDirs,
                                       hangDir)
               ELSE [patterns |-> ItemPatterns(item, path), warned |-> {},
                     hung |-> FALSE]
             rest == scan_repo_contents(tree, Tail(contents), path_prefix,
                                        failDirs, hangDir)
         IN  IF here.hung THEN here
             ELSE [patterns |-> here.patterns \o rest.patterns,
                   warned   |-> here.warned \cup rest.warned,
                   hung     |-> rest.hung]

\* find_missing_patterns with its test turned round
MissingOf_inverted(patterns, existing) ==
    SelectSeq(patterns, LAMBDA q : q.pattern_id \in existing)

\* find_missing_patterns: the patterns it appends
MissingOf(patterns, existing) ==
    SelectSeq(patterns, LAMBDA q : q.pattern_id \notin existing)

\* len(self.missing_patterns[:limit])
SliceLen(n, limit) ==
    IF limit >= 0 THEN (IF limit < n THEN limit ELSE n)
    ELSE (IF n + limit > 0 THEN n + limit ELSE 0)

\* integrate_new_patterns: the directory a downloaded file is moved to
StyleDir(name) ==
    IF Contains(Lower(name), "funk") THEN "funk"
    ELSE IF Contains(Lower(name), "rock") THEN "rock"
    ELSE IF Contains(Lower(name), "jazz") THEN "jazz"
    ELSE "general"

\* main: --download's default, and the values given in the runs
DefaultDownload == 50
MaxLimit == 1
MaxRuns == 2

DownloadArgs == (0..MaxLimit) \cup {DefaultDownload}

Args == [all : BOOLEAN, scan : BOOLEAN, integrate : BOOLEAN, download : DownloadArgs]

ScanCalls == <<"existing", "fetch", "find">>

RecMainPlan(args) ==
    IF args.all \/ args.scan
    THEN ScanCalls
         \o (IF args.all \/ args.download # 0 THEN <<"download">> ELSE <<>>)
         \o (IF args.all \/ args.integrate THEN <<"integrate">> ELSE <<>>)
    ELSE IF args.download # 0 THEN ScanCalls \o <<"download">>
    ELSE IF args.integrate THEN <<"integrate">>
    ELSE <<>>

\* the limit main passes to download_missing_patterns (0 when it makes no
\* such call)
RecMainLimit(args) ==
    IF args.all \/ args.scan
    THEN (IF args.all \/ args.download # 0
          THEN (IF args.download # 0 THEN args.download ELSE DefaultDownload)
          ELSE 0)
    ELSE args.download

\* The local files a first run may find
LocalCorpora ==
    {{}, {"storage/midi/groove-dataset/funk_x_95.mid"},
     {"storage/midi/groove-dataset/funk_x_95.mid", "mir-data/jazz_c_110.mid"}}

RecIdle ==
    /\ recFiles = {} /\ remoteTree = <<>> /\ existing_patterns = {} /\ ocean82_patterns = <<>>
    /\ missing_patterns = <<>> /\ listing_errors = {}
    /\ args_download = 0 /\ dlLimit = 0
    /\ dlIdx = 0 /\ downloaded = 0
    /\ failed = 0 /\ attempted = <<>> /\ recReport = Absent /\ recPlan = <<>>
    /\ runs = 0 /\ thisScan = Absent /\ lastScan = Absent

\* RhythmFetcher.__init__, and main up to its first call
NewFetcher ==
    /\ existing_patterns' = {}
    /\ ocean82_patterns' = <<>>
    /\ missing_patterns' = <<>>
    /\ listing_errors' = {}
    /\ dlIdx' = 0 /\ downloaded' = 0 /\ failed' = 0 /\ attempted' = <<>>
    /\ \E args \in Args :
          /\ args_download' = args.download
          /\ recPlan' = RecMainPlan(args)
          /\ dlLimit' = RecMainLimit(args)

RecInit ==
    /\ recFiles \in LocalCorpora
    /\ remoteTree \in RemoteTrees
    /\ existing_patterns = {}
    /\ ocean82_patterns = <<>>
    /\ missing_patterns = <<>>
    /\ listing_errors = {}
    /\ dlIdx = 0 /\ downloaded = 0 /\ failed = 0 /\ attempted = <<>>
    /\ \E args \in Args :
          /\ args_download = args.download
          /\ recPlan = RecMainPlan(args)
          /\ dlLimit = RecMainLimit(args)
    /\ recReport = Absent
    /\ runs = 1
    /\ thisScan = Absent /\ lastScan = Absent

\* get_existing_patterns
GetExistingPatterns ==
    /\ recPlan # <<>> /\ Head(recPlan) = "existing"
    /\ existing_patterns' =
          existing_patterns \cup
            {local_pattern_id(PathName(f)) : f \in ScannedFiles(recFiles, LocalSearchPaths)}
    /\ recPlan' = Tail(recPlan)
    /\ UNCHANGED <<remoteTree, recFiles, ocean82_patterns, missing_patterns, listing_errors, args_download, dlLimit, dlIdx,
                   downloaded, failed, attempted, recReport, runs, thisScan,
                   lastScan, catVars, idVars, procVars, valVars, fixVars, anaVars, styVars>>

\* the traversal of the repository from its root, for each way the
\* requests for its directories may go
RemoteScans ==
    UNION {{[tree |-> tree, failDirs |-> failDirs, hangDir |-> hangDir,
             scan |-> scan_repo_contents(tree, tree[""], "", failDirs, hangDir)] :
               failDirs \in SUBSET DirsOf(tree),
               hangDir \in DirsOf(tree) \cup {None}} :
           tree \in RemoteTrees}

\* the outcomes of one requests.get: a response, an exception, no return
RequestOutcomes == {"ok", "raise", "hang"}

\* main stands in a call that never returns
Blocked == <<"blocked">>

\* fetch_ocean82_patterns: the root request (root) and the request for any
\* directory (failDirs, hangDir) may raise or never return.  A failed
\* listing is logged and nothing else: listing_errors holds the logged
\* paths, "" being the root.
FetchOcean82Patterns ==
    /\ recPlan # <<>> /\ Head(recPlan) = "fetch"
    /\ \E root \in RequestOutcomes, outcome \in RemoteScans :
          /\ outcome.tree = remoteTree
          /\ root # "ok" => (outcome.failDirs = {} /\ outcome.hangDir = None)
          /\ outcome.hangDir \notin outcome.failDirs
          /\ LET scan == outcome.scan
             IN  CASE root = "ok" ->
                        /\ ocean82_patterns' = ocean82_patterns \o scan.patterns
                        /\ listing_errors' = listing_errors \cup scan.warned
                        /\ recPlan' = IF scan.hung THEN Blocked ELSE Tail(recPlan)
                   [] root = "raise" ->
                        /\ listing_errors' = listing_errors \cup {""}
                        /\ recPlan' = Tail(recPlan)
                        /\ UNCHANGED ocean82_patterns
                   [] root = "hang" ->
                        /\ recPlan' = Blocked
                        /\ UNCHANGED <<ocean82_patterns, listing_errors>>
    /\ UNCHANGED <<remoteTree, recFiles, existing_patterns, missing_patterns, args_download,
                   dlLimit, dlIdx, downloaded, failed, attempted, recReport,
                   runs, thisScan, lastScan, catVars, idVars, procVars, valVars, fixVars, anaVars, styVars>>

\* find_missing_patterns.  thisScan and lastScan keep, for this scan and for
\* the scan of the run before it, the local files outside the download
\* directory, the remote listing as fetched, and the identities found missing.
FindMissingPatterns ==
    /\ recPlan # <<>> /\ Head(recPlan) = "find"
    /\ missing_patterns' =
          missing_patterns \o MissingOf(ocean82_patterns, existing_patterns)
    /\ thisScan' =
          [local   |-> {f \in recFiles : ~Under(f, NewPatternsPath)},
           remote  |-> ocean82_patterns,
           missing |-> {missing_patterns'[i].pattern_id :
                           i \in 1..Len(missing_patterns')}]
    /\ lastScan' = thisScan
    /\ recPlan' = Tail(recPlan)
    /\ UNCHANGED <<remoteTree, recFiles, existing_patterns, ocean82_patterns, listing_errors, args_download, dlLimit, dlIdx,
                   downloaded, failed, attempted, recReport, runs,
                   catVars, idVars, procVars, valVars, fixVars, anaVars, styVars>>

\* download_missing_patterns is entered
StartDownload ==
    /\ recPlan # <<>> /\ Head(recPlan) = "download" /\ dlIdx = 0
    /\ dlIdx' = 1 /\ downloaded' = 0 /\ failed' = 0
    /\ UNCHANGED <<remoteTree, recFiles, existing_patterns, ocean82_patterns, missing_patterns,
                   listing_errors, args_download, dlLimit, attempted, recReport, recPlan, runs, thisScan,
                   lastScan, catVars, idVars, procVars, valVars, fixVars, anaVars, styVars>>

\* one pass of the loop with no try/except: a failed download ends
\* download_missing_patterns and main
DownloadItem_unguarded ==
    /\ recPlan # <<>> /\ Head(recPlan) = "download"
    /\ dlIdx >= 1 /\ dlIdx <= SliceLen(Len(missing_patterns), dlLimit)
    /\ attempted' = Append(attempted, dlIdx)
    /\ dlIdx' = dlIdx + 1
    /\ \E ok \in BOOLEAN :
          IF ok
          THEN /\ recFiles' = recFiles \cup
                      {NewPatternsPath \o "/" \o missing_patterns[dlIdx].name}
               /\ downloaded' = downloaded + 1
               /\ UNCHANGED <<failed, recPlan>>
          ELSE /\ recPlan' = <<>>
               /\ UNCHANGED <<recFiles, downloaded, failed>>
    /\ UNCHANGED <<remoteTree, existing_patterns, ocean82_patterns, missing_patterns, listing_errors, args_download, dlLimit,
                   recReport, runs, thisScan, lastScan,
                   catVars, idVars, procVars, valVars, fixVars, anaVars, styVars>>

\* one pass of the loop of download_missing_patterns: the request or the
\* write may raise, and the request may never return
DownloadItem ==
    /\ recPlan # <<>> /\ Head(recPlan) = "download"
    /\ dlIdx >= 1 /\ dlIdx <= SliceLen(Len(missing_patterns), dlLimit)
    /\ \E outcome \in RequestOutcomes :
          CASE outcome = "ok" ->
                 /\ recFiles' = recFiles \cup
                        {NewPatternsPath \o "/" \o missing_patterns[dlIdx].name}
                 /\ downloaded' = downloaded + 1
                 /\ attempted' = Append(attempted, dlIdx)
                 /\ dlIdx' = dlIdx + 1
                 /\ UNCHANGED <<failed, recPlan>>
            [] outcome = "raise" ->
                 /\ failed' = failed + 1
                 /\ attempted' = Append(attempted, dlIdx)
                 /\ dlIdx' = dlIdx + 1
                 /\ UNCHANGED <<recFiles, downloaded, recPlan>>
            [] outcome = "hang" ->
                 /\ recPlan' = Blocked
                 /\ UNCHANGED <<recFiles, downloaded, failed, attempted, dlIdx>>
    /\ UNCHANGED <<remoteTree, existing_patterns, ocean82_patterns, missing_patterns,
                   listing_errors, args_download, dlLimit, recReport, runs,
                   thisScan, lastScan, catVars, idVars, procVars, valVars, fixVars, anaVars, styVars>>

\* the end of download_missing_patterns: _generate_report
GenerateReport ==
    /\ recPlan # <<>> /\ Head(recPlan) = "download"
    /\ dlIdx = SliceLen(Len(missing_patterns), dlLimit) + 1
    /\ recReport' =
          [existing_patterns_count |-> Cardinality(existing_patterns),
           ocean82_patterns_count  |-> Len(ocean82_patterns),
           missing_patterns_count  |-> Len(missing_patterns),
           downloaded_patterns     |-> downloaded,
           failed_downloads        |-> failed,
           missing_patterns        |-> missing_patterns]
    /\ recPlan' = Tail(recPlan)
    /\ UNCHANGED <<remoteTree, recFiles, existing_patterns, ocean82_patterns, missing_patterns,
                   listing_errors, args_download, dlLimit, dlIdx, downloaded, failed, attempted, runs, thisScan,
                   lastScan, catVars, idVars, procVars, valVars, fixVars, anaVars, styVars>>

\* integrate_new_patterns: every *.mid of the download directory is renamed
\* into templates/groove-patterns/<style>/ (Path.rename replaces a file
\* already there)
IntegrateNewPatterns ==
    /\ recPlan # <<>> /\ Head(recPlan) = "integrate"
    /\ LET new_files == {f \in recFiles :
                            Under(f, NewPatternsPath) /\ EndsWith(PathName(f), ".mid")}
       IN  recFiles' =
              (recFiles \ new_files) \cup
                {"storage/midi/templates/groove-patterns/"
                    \o StyleDir(PathName(f)) \o "/" \o PathName(f) : f \in new_files}
    /\ recPlan' = Tail(recPlan)
    /\ UNCHANGED <<remoteTree, existing_patterns, ocean82_patterns, missing_patterns, listing_errors, args_download, dlLimit,
                   dlIdx, downloaded, failed, attempted, recReport, runs,
                   thisScan, lastScan, catVars, idVars, procVars, valVars, fixVars, anaVars, styVars>>

\* main has returned; the script is run again, on the files as they are now.
\* recReport is the report the current run has written; of the scans only
\* the latest is kept for the next one to be compared with.
RunAgain ==
    /\ recPlan = <<>> /\ runs < MaxRuns
    /\ runs' = runs + 1
    /\ NewFetcher
    /\ recReport' = Absent
    /\ lastScan' = Absent
    /\ UNCHANGED <<remoteTree, recFiles, thisScan, catVars, idVars, procVars, valVars, fixVars, anaVars, styVars>>

(***************************************************************************)
(* midi-validation.py: the validator                                       *)
(***************************************************************************)

MidiBase     == "storage/midi"
TemplatesDir == "storage/midi/templates"
GeneratedDir == "storage/midi/generated"
GrooveDir    == "storage/midi/groove-dataset"
ChordSetsDir == "storage/midi/templates/chord-sets"

\* validate_catalogs: expected_catalogs, in order
ExpectedCatalogs ==
    <<"storage/midi/templates/midi_catalog.json",
      "storage/midi/groove-dataset/groove_catalog.json",
      "storage/midi/templates/chord-sets/chord_sets_catalog.json">>

\* What the files under storage/midi may hold
ValContents == {"lead-A", "drums", "silent", "blip", "header", "garbage"}

\* the path integrate_midi_file copies the source file midi_path to
IntegratedPath(midi_path, content) ==
    LET analysis == AnalysisOf(midi_path, content)
    IN  TargetPath(midi_path, analysis, categorize_midi_file(analysis))

\* The files a run of the processor has integrated: a source file that
\* parses, copied to its target path
IntegratedFiles ==
    {[path |-> IntegratedPath(q, c), content |-> c] :
        q \in {"attached_assets/a/lead.mid", "mir-data/kit/Beat.MID"},
        c \in {x \in ValContents : FileFacts(x).parses}}

IntegratedPaths == {f.path : f \in IntegratedFiles}

\* The files other scripts have put under storage/midi
OtherFiles ==
    {[path |-> q, content |-> c] :
        q \in {"storage/midi/templates/chord-sets/fast-progressions/c1.mid",
               "storage/midi/templates/intro.midi",
               "storage/midi/generated/song.mid",
               "storage/midi/groove-dataset/funk/g1.mid"},
        c \in ValContents}

\* at most MaxValFiles files exist under storage/midi in one run
MaxValFiles == 2

\* the trees of at most MaxValFiles files
StorageTrees ==
    UNION {{[q \in {pick[i].path : i \in 1..n} |->
                (CHOOSE f \in {pick[i] : i \in 1..n} : f.path = q).content] :
              pick \in {g \in [1..n -> IntegratedFiles \cup OtherFiles] :
                           \A i, j \in 1..n : i < j => g[i].path # g[j].path}} :
           n \in 0..MaxValFiles}

\* validate_midi_file on a file of the given content
validate_midi_file(file_path, content) ==
    LET facts == FileFacts(content)
    IN  IF facts.parses
        THEN [valid      |-> TRUE,
              path       |-> file_path,
              num_tracks |-> facts.num_tracks,
              has_notes  |-> facts.note_count > 0,
              note_count |-> facts.note_count,
              length_ms  |-> facts.length_ms,
              issues     |->
                 (IF facts.note_count = 0 THEN <<"No note events found">> ELSE <<>>)
                 \o (IF facts.length_ms < 100 THEN <<"Very short duration">> ELSE <<>>)
                 \o (IF facts.num_tracks = 0 THEN <<"No tracks found">> ELSE <<>>)]
        ELSE [valid  |-> FALSE,
              path   |-> file_path,
              error  |-> "parse",
              issues |-> <<"File corruption or invalid format">>]

\* a file counted valid as soon as it parses
CountsValid_parsed(validation) == validation.valid

\* validation["valid"] and not validation["issues"]
CountsValid(validation) == validation.valid /\ validation.issues = <<>>

\* dir.rglob("*" + ext): the files under dir whose name ends with ext
RGlob(dir, ext) ==
    {q \in DOMAIN vFiles : Under(q, dir) /\ EndsWith(PathName(q), ext)}

\* dir.glob("*" + ext): the files in dir itself whose name ends with ext
Glob(dir, ext) ==
    {q \in DOMAIN vFiles :
        q = dir \o "/" \o PathName(q) /\ EndsWith(PathName(q), ext)}

\* the lists a directory walk may yield the files of a set in
Orders(files) ==
    {g \in [1..Cardinality(files) -> files] :
        \A i, j \in 1..Cardinality(files) : i < j => g[i] # g[j]}

\* the loop of validate_templates and of its three siblings over the list
\* `files`: the section of the report as the loop leaves it
ValidateFiles(section, files) ==
    LET validations == [i \in 1..Len(files) |->
                           validate_midi_file(files[i], vFiles[files[i]])]
    IN  [total   |-> Len(files),
         valid   |-> section.valid
                       + Cardinality({i \in 1..Len(files) :
                                         CountsValid(validations[i])}),
         invalid |-> section.invalid
                       \o SelectSeq(validations, LAMBDA v : ~CountsValid(v))]

\* main: the calls it makes for the flags given
FullValidation ==
    <<"mkdirs", "templates", "groove_dataset", "generated", "chord_sets",
      "catalogs", "fix", "regenerate", "report">>

ValArgs == [validate : BOOLEAN, fix : BOOLEAN, catalogs : BOOLEAN]

ValMainPlan(args) ==
    IF args.validate \/ ~(args.fix \/ args.catalogs) THEN FullValidation
    ELSE IF args.fix THEN <<"fix">>
    ELSE <<"regenerate">>

EmptySection == [total |-> 0, valid |-> 0, invalid |-> <<>>]

ValIdle ==
    /\ vFiles = <<>> /\ vMissingCatalogs = {} /\ validation_report = Absent
    /\ vReportFile = Absent /\ vPlan = <<>> /\ vArgs = Absent
    /\ vParsed = {} /\ vRemoved = {}

\* MidiValidator.__init__, and the files the run starts with
ValInit ==
    /\ vFiles \in StorageTrees
    /\ vMissingCatalogs \in
          {{}, {ExpectedCatalogs[i] : i \in 1..Len(ExpectedCatalogs)}}
    /\ validation_report =
          [templates      |-> EmptySection,
           generated      |-> EmptySection,
           groove_dataset |-> EmptySection,
           chord_sets     |-> EmptySection,
           catalogs       |-> [missing |-> <<>>, outdated |-> <<>>],
           errors         |-> <<>>]
    /\ vReportFile = Absent
    /\ vArgs \in ValArgs
    /\ vPlan = ValMainPlan(vArgs)
    /\ vParsed = {}
    /\ vRemoved = {}

\* create_missing_directories: the directories are made, no file changes
CreateMissingDirectories ==
    /\ vPlan # <<>> /\ Head(vPlan) = "mkdirs"
    /\ vPlan' = Tail(vPlan)
    /\ UNCHANGED <<vFiles, vMissingCatalogs, validation_report, vReportFile,
                   vArgs, vParsed, vRemoved, catVars, idVars, procVars, recVars, fixVars, anaVars, styVars>>

\* validate_templates: the *.mid files under templates, then the *.midi ones
ValidateTemplates ==
    /\ vPlan # <<>> /\ Head(vPlan) = "templates"
    /\ \E mids \in Orders(RGlob(TemplatesDir, ".mid")),
          midis \in Orders(RGlob(TemplatesDir, ".midi")) :
          validation_report' =
             [validation_report EXCEPT
                !.templates = ValidateFiles(@, mids \o midis)]
    /\ vParsed' = vParsed \cup RGlob(TemplatesDir, ".mid")
                          \cup RGlob(TemplatesDir, ".midi")
    /\ vPlan' = Tail(vPlan)
    /\ UNCHANGED <<vFiles, vMissingCatalogs, vReportFile, vArgs, vRemoved,
                   catVars, idVars, procVars, recVars, fixVars, anaVars, styVars>>

\* validate_groove_dataset
ValidateGrooveDataset ==
    /\ vPlan # <<>> /\ Head(vPlan) = "groove_dataset"
    /\ \E groove_files \in Orders(RGlob(GrooveDir, ".mid")) :
          validation_report' =
             [validation_report EXCEPT
                !.groove_dataset = ValidateFiles(@, groove_files)]
    /\ vParsed' = vParsed \cup RGlob(GrooveDir, ".mid")
    /\ vPlan' = Tail(vPlan)
    /\ UNCHANGED <<vFiles, vMissingCatalogs, vReportFile, vArgs, vRemoved,
                   catVars, idVars, procVars, recVars, fixVars, anaVars, styVars>>

\* validate_generated_files: glob, the files of the directory itself
ValidateGeneratedFiles ==
    /\ vPlan # <<>> /\ Head(vPlan) = "generated"
    /\ \E generated_files \in Orders(Glob(GeneratedDir, ".mid")) :
          validation_report' =
             [validation_report EXCEPT
                !.generated = ValidateFiles(@, generated_files)]
    /\ vParsed' = vParsed \cup Glob(GeneratedDir, ".mid")
    /\ vPlan' = Tail(vPlan)
    /\ UNCHANGED <<vFiles, vMissingCatalogs, vReportFile, vArgs, vRemoved,
                   catVars, idVars, procVars, recVars, fixVars, anaVars, styVars>>

\* validate_chord_sets: templates/chord-sets exists, made by
\* create_missing_directories
ValidateChordSets ==
    /\ vPlan # <<>> /\ Head(vPlan) = "chord_sets"
    /\ \E chord_files \in Orders(RGlob(ChordSetsDir, ".mid")) :
          validation_report' =
             [validation_report EXCEPT
                !.chord_sets = ValidateFiles(@, chord_files)]
    /\ vParsed' = vParsed \cup RGlob(ChordSetsDir, ".mid")
    /\ vPlan' = Tail(vPlan)
    /\ UNCHANGED <<vFiles, vMissingCatalogs, vReportFile, vArgs, vRemoved,
                   catVars, idVars, procVars, recVars, fixVars, anaVars, styVars>>

\* validate_catalogs: a catalog file is missing or holds a catalog
ValidateCatalogs ==
    /\ vPlan # <<>> /\ Head(vPlan) = "catalogs"
    /\ validation_report' =
          [validation_report EXCEPT
             !.catalogs.missing =
                 @ \o SelectSeq(ExpectedCatalogs,
                                LAMBDA c : c \in vMissingCatalogs)]
    /\ vPlan' = Tail(vPlan)
    /\ UNCHANGED <<vFiles, vMissingCatalogs, vReportFile, vArgs, vParsed,
                   vRemoved, catVars, idVars, procVars, recVars, fixVars, anaVars, styVars>>

\* validation_report's four invalid lists, as fix_invalid_files joins them
AllInvalid ==
    validation_report.templates.invalid \o validation_report.generated.invalid
      \o validation_report.groove_dataset.invalid
      \o validation_report.chord_sets.invalid

\* fix_invalid_files with the unlink done for every record of the lists
FixInvalidFiles_all ==
    /\ vPlan # <<>> /\ Head(vPlan) = "fix"
    /\ LET listed == {AllInvalid[i].path : i \in 1..Len(AllInvalid)}
                        \cap DOMAIN vFiles
       IN  /\ vFiles' = [q \in DOMAIN vFiles \ listed |-> vFiles[q]]
           /\ vRemoved' = vRemoved \cup listed
    /\ vPlan' = Tail(vPlan)
    /\ UNCHANGED <<vMissingCatalogs, validation_report, vReportFile, vArgs,
                   vParsed, catVars, idVars, procVars, recVars, fixVars,
                   anaVars, styVars>>

\* fix_invalid_files: every record with valid = False has its file
\* unlinked; an unlink may raise (unlinkFails), which is printed
FixInvalidFiles ==
    /\ vPlan # <<>> /\ Head(vPlan) = "fix"
    /\ LET corrupt == {AllInvalid[i].path :
                          i \in {j \in 1..Len(AllInvalid) : ~AllInvalid[j].valid}}
                         \cap DOMAIN vFiles
       IN  \E unlinkFails \in SUBSET corrupt :
              /\ vFiles' = [q \in DOMAIN vFiles \ (corrupt \ unlinkFails) |->
                               vFiles[q]]
              /\ vRemoved' = vRemoved \cup (corrupt \ unlinkFails)
    /\ vPlan' = Tail(vPlan)
    /\ UNCHANGED <<vMissingCatalogs, validation_report, vReportFile, vArgs,
                   vParsed, catVars, idVars, procVars, recVars, fixVars, anaVars, styVars>>

\* regenerate_catalogs: os.system runs midi-catalog.py --scan, which writes
\* templates/midi_catalog.json when it gets that far (scanned), and
\* groove-dataset-loader.py --extract; both copy and write, neither removes
\* a file under storage/midi
RegenerateCatalogs ==
    /\ vPlan # <<>> /\ Head(vPlan) = "regenerate"
    /\ \E scanned \in BOOLEAN :
          vMissingCatalogs' =
             IF scanned THEN vMissingCatalogs \ {ExpectedCatalogs[1]}
             ELSE vMissingCatalogs
    /\ vPlan' = Tail(vPlan)
    /\ UNCHANGED <<vFiles, validation_report, vReportFile, vArgs, vParsed,
                   vRemoved, catVars, idVars, procVars, recVars, fixVars, anaVars, styVars>>

\* generate_report: the two sums the success rate is printed from
TotalFiles(report) ==
    report.templates.total + report.generated.total
      + report.groove_dataset.total + report.chord_sets.total

TotalValid(report) ==
    report.templates.valid + report.generated.valid
      + report.groove_dataset.valid + report.chord_sets.valid

\* generate_report: validation_report.json is written
SaveValidationReport ==
    /\ vPlan # <<>> /\ Head(vPlan) = "report"
    /\ vReportFile' = validation_report
    /\ vPlan' = Tail(vPlan)
    /\ UNCHANGED <<vFiles, vMissingCatalogs, validation_report, vArgs, vParsed,
                   vRemoved, catVars, idVars, procVars, recVars, fixVars, anaVars, styVars>>

(***************************************************************************)
(* fix-midi-filenames.py                                                   *)
(***************************************************************************)

\* the characters re's \w matches, among those of ASCII
WordChars == LowerChars \o UpperChars \o DigitChars \o "_"

\* os.path.splitext: the extension starts at the last dot, unless only dots
\* come before it
str_splitext[p \in STRING] ==
    LET i == LastIndexOf(p, ".")
    IN  IF i > 0 /\ \E j \in 1..(i - 1) : SubSeq(p, j, j) # "."
        THEN <<SubSeq(p, 1, i - 1), SubSeq(p, i, Len(p))>>
        ELSE <<p, "">>

SplitExt(p) == str_splitext[p]

\* re.sub('[class]', '', s): s without the characters of class
str_remove[s \in STRING, class \in STRING] ==
    IF s = "" THEN ""
    ELSE (IF IndexIn(SubSeq(s, 1, 1), class) > 0 THEN "" ELSE SubSeq(s, 1, 1))
            \o str_remove[SubSeq(s, 2, Len(s)), class]

\* re.sub('[^class]', '', s): the characters of s that are in class
str_keep[s \in STRING, class \in STRING] ==
    IF s = "" THEN ""
    ELSE (IF IndexIn(SubSeq(s, 1, 1), class) > 0 THEN SubSeq(s, 1, 1) ELSE "")
            \o str_keep[SubSeq(s, 2, Len(s)), class]

\* re.sub('_+', '_', s)
str_squeeze[s \in STRING] ==
    IF Len(s) < 2 THEN s
    ELSE IF SubSeq(s, 1, 2) = "__" THEN str_squeeze[SubSeq(s, 2, Len(s))]
    ELSE SubSeq(s, 1, 1) \o str_squeeze[SubSeq(s, 2, Len(s))]

\* s.strip('_')
str_strip[s \in STRING] ==
    LET kept == {i \in 1..Len(s) : SubSeq(s, i, i) # "_"}
    IN  IF kept = {} THEN ""
        ELSE SubSeq(s, CHOOSE i \in kept : \A j \in kept : i <= j,
                       CHOOSE i \in kept : \A j \in kept : i >= j)

\* sanitize_filename: names longer than NameLimit are cut
NameLimit == 50

sanitize_name[filename \in STRING] ==
    LET name    == SplitExt(filename)[1]
        ext     == SplitExt(filename)[2]
        cleaned == str_strip[str_squeeze[
                      str_keep[str_remove[Replace(name, " ", "_"),
                                          "<>:\"/\\|?*"],
                               WordChars \o "-"]]]
        short   == IF Len(cleaned) > NameLimit
                   THEN SubSeq(cleaned, 1, NameLimit) ELSE cleaned
    IN  (IF short = "" THEN "midi_file" ELSE short) \o ext

sanitize_filename(filename) == sanitize_name[filename]

\* The names the files of a directory may have
FixNames ==
    {"groove 1.mid", "groove_1.mid", "a__b?.mid", "_x_.MID", "???.mid",
     "Rock (Live) & Roll.mid", "take.v2.midi", "notes.txt",
     "Ocean82_midi_land_funk_groove_pattern_slow_ballad_take_two_095.mid"}

\* at most MaxFixFiles files are in the directory when the script starts
MaxFixFiles == 2

\* directory.rglob("*" + ext), the directory's files being fixFiles
FixGlob(ext) == {n \in fixFiles : EndsWith(n, ext)}

\* rename_files_in_directory, the while loop: the first name of new_name,
\* new_name_1, new_name_1_2, ... that no file of the directory has
RECURSIVE FreeName(_, _, _)
FreeName(new_name, counter, existing) ==
    IF new_name \notin existing THEN new_name
    ELSE FreeName(SplitExt(new_name)[1] \o "_" \o ToStr(counter)
                     \o SplitExt(new_name)[2],
                  counter + 1, existing)

\* update_catalog_files: every occurrence of each old name in the text of
\* the catalog becomes the new name, the renames taken in order
RECURSIVE ReplaceNames(_, _)
ReplaceNames(entries, renames) ==
    IF renames = <<>> THEN entries
    ELSE ReplaceNames(
            {Replace(e, Head(renames).original_name, Head(renames).new_name) :
                e \in entries},
            Tail(renames))

FixAllFilenames == <<"list", "rename", "catalogs", "report">>

FixIdle ==
    /\ fixFiles = {} /\ fixCatalog = Absent /\ midi_files = <<>>
    /\ renamed_files = <<>> /\ fixReportFile = Absent /\ fixPlan = <<>>
    /\ fixRuns = 0

\* MidiFilenamesFixer.__init__ and main; a catalog file, when there is one,
\* lists the files of the directory
FixInit ==
    /\ fixFiles \in {d \in SUBSET FixNames : Cardinality(d) <= MaxFixFiles}
    /\ fixCatalog \in {Absent, [files |-> fixFiles]}
    /\ midi_files = <<>>
    /\ renamed_files = <<>>
    /\ fixReportFile = Absent
    /\ fixPlan = FixAllFilenames
    /\ fixRuns = 1

\* rename_files_in_directory, up to its loop: the four rglob calls
ListMidiFiles ==
    /\ fixPlan # <<>> /\ Head(fixPlan) = "list"
    /\ \E lower \in Orders(FixGlob(".mid")), long \in Orders(FixGlob(".midi")),
          upper \in Orders(FixGlob(".MID")),
          longUpper \in Orders(FixGlob(".MIDI")) :
          midi_files' = lower \o long \o upper \o longUpper
    /\ fixPlan' = IF midi_files' = <<>> THEN Tail(Tail(fixPlan))
                  ELSE Tail(fixPlan)
    /\ UNCHANGED <<fixFiles, fixCatalog, renamed_files, fixReportFile, fixRuns,
                   catVars, idVars, procVars, recVars, valVars, anaVars, styVars>>

\* rename_files_in_directory, one turn of its loop
RenameFile ==
    /\ fixPlan # <<>> /\ Head(fixPlan) = "rename"
    /\ LET original_name == Head(midi_files)
           new_name == FreeName(sanitize_filename(original_name), 1, fixFiles)
       IN  IF original_name # sanitize_filename(original_name)
           THEN /\ fixFiles' = (fixFiles \ {original_name}) \cup {new_name}
                /\ renamed_files' =
                      Append(renamed_files,
                             [original_name |-> original_name,
                              new_name      |-> new_name])
           ELSE UNCHANGED <<fixFiles, renamed_files>>
    /\ midi_files' = Tail(midi_files)
    /\ fixPlan' = IF midi_files' = <<>> THEN Tail(fixPlan) ELSE fixPlan
    /\ UNCHANGED <<fixCatalog, fixReportFile, fixRuns,
                   catVars, idVars, procVars, recVars, valVars, anaVars, styVars>>

\* update_catalog_files
UpdateCatalogFiles ==
    /\ fixPlan # <<>> /\ Head(fixPlan) = "catalogs"
    /\ fixCatalog' =
          IF fixCatalog = Absent THEN Absent
          ELSE [files |-> ReplaceNames(fixCatalog.files, renamed_files)]
    /\ fixPlan' = Tail(fixPlan)
    /\ UNCHANGED <<fixFiles, midi_files, renamed_files, fixReportFile, fixRuns,
                   catVars, idVars, procVars, recVars, valVars, anaVars, styVars>>

\* generate_report: filename_fix_report.json is written
SaveFixReport ==
    /\ fixPlan # <<>> /\ Head(fixPlan) = "report"
    /\ fixReportFile' = [total_renamed |-> Len(renamed_files),
                         renamed_files |-> renamed_files]
    /\ fixPlan' = Tail(fixPlan)
    /\ UNCHANGED <<fixFiles, fixCatalog, midi_files, renamed_files, fixRuns,
                   catVars, idVars, procVars, recVars, valVars, anaVars, styVars>>

\* the script is run again over the files the earlier run left
FixAgain ==
    /\ fixPlan = <<>> /\ fixRuns >= 1 /\ fixRuns < MaxRuns
    /\ fixRuns' = fixRuns + 1
    /\ renamed_files' = <<>>
    /\ fixPlan' = FixAllFilenames
    /\ UNCHANGED <<fixFiles, fixCatalog, midi_files, fixReportFile,
                   catVars, idVars, procVars, recVars, valVars, anaVars, styVars>>

(***************************************************************************)
(* The analyzers of comprehensive-midi-processor.py, groove-dataset-loader *)
(* and midi-catalog.py, over the messages of a file's tracks               *)
(***************************************************************************)

\* The messages a track may hold, as mido gives them: time is the message's
\* delta-time in ticks, tempo is in microseconds per beat
MidiMessages ==
    {[type |-> "note_on", time |-> 480, channel |-> 0, note |-> 60,
      velocity |-> 64],
     [type |-> "note_on", time |-> 0, channel |-> 9, note |-> 36,
      velocity |-> 0],
     [type |-> "note_on", time |-> 240, channel |-> 9, note |-> 38,
      velocity |-> 100],
     [type |-> "program_change", time |-> 240, channel |-> 9, program |-> 0],
     [type |-> "set_tempo", time |-> 0, tempo |-> 666667],
     [type |-> "set_tempo", time |-> 480, tempo |-> 428571],
     [type |-> "time_signature", time |-> 240, numerator |-> 3,
      denominator |-> 4],
     [type |-> "key_signature", time |-> 120, key |-> "Am"]}

\* a file holds at most MaxMessages messages
MaxMessages == 3

MessageLists == UNION {[1..n -> MidiMessages] : n \in 0..MaxMessages}

\* mid.tracks of the files analyzed: no track, one track, or two
MidiFiles ==
    {<<>>} \cup {<<msgs>> : msgs \in MessageLists}
      \cup UNION {{<<SubSeq(msgs, 1, k), SubSeq(msgs, k + 1, Len(msgs))>> :
                      k \in 0..Len(msgs)} : msgs \in MessageLists}

\* hasattr(msg, 'channel')
HasChannel(msg) == "channel" \in DOMAIN msg

\* round(mido.tempo2bpm(tempo), 2), in hundredths of a beat per minute:
\* 60000000 / tempo to the nearest hundredth
tempo2bpm(tempo) ==
    (60000000 \div tempo) * 100
      + ((60000000 % tempo) * 100 + tempo \div 2) \div tempo

\* `for msg in track: current_time += msg.time`: each message of the track
\* with current_time as it is once the message is added
RECURSIVE Stamp(_, _)
Stamp(track, current_time) ==
    IF track = <<>> THEN <<>>
    ELSE <<[time |-> current_time + Head(track).time, msg |-> Head(track)]>>
            \o Stamp(Tail(track), current_time + Head(track).time)

\* current_time when the loop over a track ends
TimeAfter(track, current_time) ==
    IF track = <<>> THEN current_time
    ELSE Stamp(track, current_time)[Len(track)].time

\* the loop over mid.tracks with current_time set to 0 before it, once for
\* the file: the stamped messages of each track
RECURSIVE StampTracks(_, _)
StampTracks(tracks, current_time) ==
    IF tracks = <<>> THEN <<>>
    ELSE <<Stamp(Head(tracks), current_time)>>
            \o StampTracks(Tail(tracks), TimeAfter(Head(tracks), current_time))

\* the loop over mid.tracks with current_time set to 0 inside it, once for
\* each track
StampEachTrack(tracks) == [t \in 1..Len(tracks) |-> Stamp(tracks[t], 0)]

RECURSIVE Concat(_)
Concat(lists) ==
    IF lists = <<>> THEN <<>> ELSE Head(lists) \o Concat(Tail(lists))

\* the entries the loops append for the messages of one type
TempoChanges(stamped) ==
    LET found == SelectSeq(stamped, LAMBDA m : m.msg.type = "set_tempo")
    IN  [i \in 1..Len(found) |->
            [time |-> found[i].time, bpm |-> tempo2bpm(found[i].msg.tempo)]]

TimeSignatures(stamped) ==
    LET found == SelectSeq(stamped, LAMBDA m : m.msg.type = "time_signature")
    IN  [i \in 1..Len(found) |->
            [time        |-> found[i].time,
             numerator   |-> found[i].msg.numerator,
             denominator |-> found[i].msg.denominator]]

KeySignatures(stamped) ==
    LET found == SelectSeq(stamped, LAMBDA m : m.msg.type = "key_signature")
    IN  [i \in 1..Len(found) |->
            [time |-> found[i].time, key |-> found[i].msg.key]]

\* the note_on messages with velocity > 0, which is where the elif chain of
\* ComprehensiveMidiProcessor.analyze_midi_file counts notes and looks at
\* the channel
SoundingNotes(track) ==
    SelectSeq(track, LAMBDA msg : msg.type = "note_on" /\ msg.velocity > 0)

\* ComprehensiveMidiProcessor.analyze_midi_file, the part after the file is
\* parsed
analyze_tracks(tracks) ==
    LET stamped == Concat(StampTracks(tracks, 0))
        track_analysis ==
            [t \in 1..Len(tracks) |->
                [track_index   |-> t - 1,
                 notes         |-> Len(SoundingNotes(tracks[t])),
                 is_drum_track |->
                    \E i \in 1..Len(SoundingNotes(tracks[t])) :
                       /\ HasChannel(SoundingNotes(tracks[t])[i])
                       /\ SoundingNotes(tracks[t])[i].channel = 9]]
        tempo_changes   == TempoChanges(stamped)
        time_signatures == TimeSignatures(stamped)
    IN  [num_tracks      |-> Len(tracks),
         tempo_changes   |-> tempo_changes,
         time_signatures |-> time_signatures,
         key_signatures  |-> KeySignatures(stamped),
         channels        |->
            {stamped[i].msg.channel :
                i \in {j \in 1..Len(stamped) :
                          stamped[j].msg.type = "program_change"}},
         has_drums       |->
            \E t \in 1..Len(tracks) : track_analysis[t].is_drum_track,
         track_analysis  |-> track_analysis,
         estimated_tempo |->
            IF tempo_changes # <<>> THEN tempo_changes[1].bpm ELSE 12000,
         time_signature  |->
            IF time_signatures # <<>>
            THEN ToStr(time_signatures[1].numerator) \o "/"
                    \o ToStr(time_signatures[1].denominator)
            ELSE "4/4"]

\* GrooveDatasetLoader._analyze_groove_midi, the part after the file is
\* parsed
analyze_groove_midi(tracks) ==
    LET stamped == Concat(StampTracks(tracks, 0))
        is_drum_track ==
            [t \in 1..Len(tracks) |->
                \E i \in 1..Len(tracks[t]) :
                   HasChannel(tracks[t][i]) /\ tracks[t][i].channel = 9]
        tempo_changes   == TempoChanges(stamped)
        time_signatures == TimeSignatures(stamped)
    IN  [num_tracks      |-> Len(tracks),
         drum_tracks     |->
            Cardinality({t \in 1..Len(tracks) : is_drum_track[t]}),
         melody_tracks   |->
            Cardinality({t \in 1..Len(tracks) : ~is_drum_track[t]}),
         tempo_changes   |-> tempo_changes,
         time_signatures |-> time_signatures,
         estimated_tempo |->
            IF tempo_changes # <<>> THEN tempo_changes[1].bpm ELSE 12000,
         time_signature  |->
            IF time_signatures # <<>>
            THEN ToStr(time_signatures[1].numerator) \o "/"
                    \o ToStr(time_signatures[1].denominator)
            ELSE "4/4"]

RECURSIVE SumOf(_)
SumOf(numbers) ==
    IF numbers = <<>> THEN 0 ELSE Head(numbers) + SumOf(Tail(numbers))

\* MidiCatalog.estimate_overall_tempo: round(sum(tempos) / len(tempos), 2)
\* in hundredths, or the default
estimate_overall_tempo(metadata) ==
    LET tempos == Concat([t \in 1..Len(metadata.tracks) |->
                            [i \in 1..Len(metadata.tracks[t].tempo_changes) |->
                                metadata.tracks[t].tempo_changes[i].bpm]])
    IN  IF tempos # <<>>
        THEN (2 * SumOf(tempos) + Len(tempos)) \div (2 * Len(tempos))
        ELSE 12000

\* MidiCatalog.estimate_overall_key
estimate_overall_key(metadata) ==
    LET keys == Concat([t \in 1..Len(metadata.tracks) |->
                          [i \in 1..Len(metadata.tracks[t].key_signatures) |->
                              metadata.tracks[t].key_signatures[i].key]])
    IN  IF keys # <<>> THEN keys[1] ELSE "C"

\* MidiCatalog.analyze_midi_file, the part after the file is parsed
catalog_analyze_tracks(tracks) ==
    LET stamped == StampEachTrack(tracks)
        metadata ==
            [num_tracks |-> Len(tracks),
             tracks     |->
                [t \in 1..Len(tracks) |->
                    [track_number    |-> t - 1,
                     num_messages    |-> Len(tracks[t]),
                     tempo_changes   |-> TempoChanges(stamped[t]),
                     key_signatures  |-> KeySignatures(stamped[t]),
                     time_signatures |-> TimeSignatures(stamped[t])]]]
    IN  [num_tracks      |-> metadata.num_tracks,
         tracks          |-> metadata.tracks,
         estimated_tempo |-> estimate_overall_tempo(metadata),
         estimated_key   |-> estimate_overall_key(metadata)]

AnaIdle ==
    /\ midTracks = <<>> /\ procAnalysis = Absent /\ grooveAnalysis = Absent
    /\ catMetadata = Absent

\* a file that parses is given to the three analyzers
AnaInit ==
    /\ midTracks \in MidiFiles
    /\ procAnalysis = Absent
    /\ grooveAnalysis = Absent
    /\ catMetadata = Absent

AnalyzeMidiFile ==
    /\ procAnalysis = Absent
    /\ procAnalysis' = analyze_tracks(midTracks)
    /\ UNCHANGED <<midTracks, grooveAnalysis, catMetadata, catVars, idVars,
                   procVars, recVars, valVars, fixVars, styVars>>

AnalyzeGrooveMidi ==
    /\ grooveAnalysis = Absent
    /\ grooveAnalysis' = analyze_groove_midi(midTracks)
    /\ UNCHANGED <<midTracks, procAnalysis, catMetadata, catVars, idVars,
                   procVars, recVars, valVars, fixVars, styVars>>

CatalogAnalyzeMidiFile ==
    /\ catMetadata = Absent
    /\ catMetadata' = catalog_analyze_tracks(midTracks)
    /\ UNCHANGED <<midTracks, procAnalysis, grooveAnalysis, catVars, idVars,
                   procVars, recVars, valVars, fixVars, styVars>>

(***************************************************************************)
(* groove-dataset-loader.py: style                                         *)
(***************************************************************************)

\* _detect_groove_style: style_keywords, in the order of the dict
StyleKeywords ==
    <<[style |-> "rock",       keywords |-> <<"rock", "punk", "metal", "grunge">>],
      [style |-> "jazz",       keywords |-> <<"jazz", "swing", "bebop", "fusion">>],
      [style |-> "funk",       keywords |-> <<"funk", "soul", "r&b", "rnb">>],
      [style |-> "latin",      keywords |->
                                  <<"latin", "salsa", "bossa", "samba", "mambo">>],
      [style |-> "electronic", keywords |->
                                  <<"electronic", "edm", "techno", "house", "trance">>],
      [style |-> "hip_hop",    keywords |-> <<"hip", "hop", "rap", "trap", "drill">>],
      [style |-> "pop",        keywords |-> <<"pop", "commercial", "mainstream">>],
      [style |-> "blues",      keywords |-> <<"blues", "shuffle">>],
      [style |-> "reggae",     keywords |-> <<"reggae", "ska", "dub">>],
      [style |-> "country",    keywords |-> <<"country", "folk", "bluegrass">>],
      [style |-> "world",      keywords |-> <<"world", "ethnic", "traditional">>]>>

\* the two nested loops over style_keywords: the style returned, None when
\* the loops end without returning
RECURSIVE KeywordStyle(_, _, _)
KeywordStyle(table, filename, parent_dir) ==
    IF table = <<>> THEN None
    ELSE IF \E k \in 1..Len(Head(table).keywords) :
               \/ Contains(filename, Head(table).keywords[k])
               \/ Contains(parent_dir, Head(table).keywords[k])
         THEN Head(table).style
         ELSE KeywordStyle(Tail(table), filename, parent_dir)

\* analysis.get('estimated_tempo', 120), in hundredths
TempoOf(analysis) ==
    IF "estimated_tempo" \in DOMAIN analysis THEN analysis.estimated_tempo
    ELSE 12000

\* _detect_groove_style looking at the file's name alone
detect_groove_style_name_only(name, parent, analysis) ==
    LET tempo == TempoOf(analysis)
        style == KeywordStyle(StyleKeywords, Lower(name), "")
    IN  IF style # None THEN style
        ELSE IF tempo < 8000 THEN "ballad"
        ELSE IF tempo < 10000 THEN "medium"
        ELSE IF tempo < 14000 THEN "upbeat"
        ELSE "fast"

\* _detect_groove_style of the file parent/name
detect_groove_style(name, parent, analysis) ==
    LET tempo == TempoOf(analysis)
        style == KeywordStyle(StyleKeywords, Lower(name), Lower(parent))
    IN  IF style # None THEN style
        ELSE IF tempo < 8000 THEN "ballad"
        ELSE IF tempo < 10000 THEN "medium"
        ELSE IF tempo < 14000 THEN "upbeat"
        ELSE "fast"

StyNames ==
    {"Funky_Rock_01.mid", "bishop.mid", "take1.mid", "pop_rock.mid",
     "R&B_slow.mid", "swing_salsa.mid", "traprock.mid"}

StyParents == {"jazz", "Latin Grooves", "misc", "house", ""}

\* the analyses _analyze_groove_midi may have returned, by their tempo, and
\* the record it returns for a file that does not parse
StyAnalyses ==
    {[estimated_tempo |-> t] :
        t \in {7999, 8000, 9950, 10000, 12000, 13999, 14000}}
      \cup {[error |-> "parse"]}

\* nothing is running of _detect_groove_style
StyIdle ==
    /\ styName = None /\ styParent = None /\ styAnalysis = Absent
    /\ styResult = None

StyInit ==
    /\ styName \in StyNames
    /\ styParent \in StyParents
    /\ styAnalysis \in StyAnalyses
    /\ styResult = None

DetectGrooveStyle ==
    /\ styResult = None
    /\ styResult' = detect_groove_style(styName, styParent, styAnalysis)
    /\ UNCHANGED <<styName, styParent, styAnalysis, catVars, idVars, procVars,
                   recVars, valVars, fixVars, anaVars>>

(***************************************************************************)
(* Specifications                                                          *)
(***************************************************************************)

ClassifierInit == CatInit /\ IdIdle /\ ProcIdle /\ RecIdle /\ ValIdle /\ FixIdle
    /\ AnaIdle /\ StyIdle
ClassifierNext == Categorize
SpecClassifier == ClassifierInit /\ [][ClassifierNext]_vars

IdentityInit == IdInit /\ CatIdle /\ ProcIdle /\ RecIdle /\ ValIdle /\ FixIdle
    /\ AnaIdle /\ StyIdle
IdentityNext == ScanLocalName \/ ScanRemoteName
SpecIdentity == IdentityInit /\ [][IdentityNext]_vars

ProcessorInit == ProcInit /\ CatIdle /\ IdIdle /\ RecIdle /\ ValIdle /\ FixIdle
    /\ AnaIdle /\ StyIdle
ProcessorNext ==
    \/ Discover
    \/ StartProcessing
    \/ ProcessFile
    \/ SaveReport
    \/ GenerateCatalog
SpecProcessor == ProcessorInit /\ [][ProcessorNext]_vars

ReconcilerInit == RecInit /\ CatIdle /\ IdIdle /\ ProcIdle /\ ValIdle /\ FixIdle
    /\ AnaIdle /\ StyIdle
ReconcilerNext ==
    \/ GetExistingPatterns
    \/ FetchOcean82Patterns
    \/ FindMissingPatterns
    \/ StartDownload
    \/ DownloadItem
    \/ GenerateReport
    \/ IntegrateNewPatterns
    \/ RunAgain
SpecReconciler == ReconcilerInit /\ [][ReconcilerNext]_vars

ValidatorInit ==
    ValInit /\ CatIdle /\ IdIdle /\ ProcIdle /\ RecIdle /\ FixIdle
    /\ AnaIdle /\ StyIdle
ValidatorNext ==
    \/ CreateMissingDirectories
    \/ ValidateTemplates
    \/ ValidateGrooveDataset
    \/ ValidateGeneratedFiles
    \/ ValidateChordSets
    \/ ValidateCatalogs
    \/ FixInvalidFiles
    \/ RegenerateCatalogs
    \/ SaveValidationReport
SpecValidator == ValidatorInit /\ [][ValidatorNext]_vars

FixerInit ==
    FixInit /\ CatIdle /\ IdIdle /\ ProcIdle /\ RecIdle /\ ValIdle
    /\ AnaIdle /\ StyIdle
FixerNext ==
    \/ ListMidiFiles
    \/ RenameFile
    \/ UpdateCatalogFiles
    \/ SaveFixReport
    \/ FixAgain
SpecFixer == FixerInit /\ [][FixerNext]_vars

AnalyzerInit ==
    AnaInit /\ CatIdle /\ IdIdle /\ ProcIdle /\ RecIdle /\ ValIdle /\ FixIdle
    /\ StyIdle
AnalyzerNext ==
    \/ AnalyzeMidiFile
    \/ AnalyzeGrooveMidi
    \/ CatalogAnalyzeMidiFile
SpecAnalyzer == AnalyzerInit /\ [][AnalyzerNext]_vars

StylerInit ==
    StyInit /\ CatIdle /\ IdIdle /\ ProcIdle /\ RecIdle /\ ValIdle /\ FixIdle
    /\ AnaIdle
StylerNext == DetectGrooveStyle
SpecStyler == StylerInit /\ [][StylerNext]_vars

\* one run of the script, every step of which is taken when it can be
ReconcilerRunNext ==
    \/ GetExistingPatterns
    \/ FetchOcean82Patterns
    \/ FindMissingPatterns
    \/ StartDownload
    \/ DownloadItem
    \/ GenerateReport
    \/ IntegrateNewPatterns
SpecReconcilerRun ==
    ReconcilerInit /\ [][ReconcilerRunNext]_vars /\ WF_vars(ReconcilerRunNext)

(***************************************************************************)
(* Claims                                                                  *)
(***************************************************************************)

\* The eight rules as C3 words them: rules 1-3 look at filename or path
ClaimedCategory(analysis) ==
    LET filename == Lower(analysis.filename)
        path     == Lower(analysis.path)
    IN  IF AnyIn(GrooveKeywords, filename) \/ AnyIn(GrooveKeywords, path)
        THEN "groove_patterns"
        ELSE IF AnyIn(ChordKeywords, filename) \/ AnyIn(ChordKeywords, path)
        THEN "chord_progressions"
        ELSE IF AnyIn(MelodyKeywords, filename) \/ AnyIn(MelodyKeywords, path)
        THEN "melodies"
        ELSE IF AnyIn(SampleKeywords, path) THEN "samples"
        ELSE IF analysis.has_drums THEN "groove_patterns"
        ELSE IF analysis.num_tracks = 1 THEN "melodies"
        ELSE IF analysis.num_tracks > 5 THEN "templates"
        ELSE "templates"

\* C3: categorize_midi_file returns, for every input, the category of the
\* first matching rule of the eight, rules 1-3 matching a keyword in the
\* filename or in the path.
C3_RulesOverFilenameOrPath ==
    catResult # None => catResult = ClaimedCategory(CatAnalysis)

\* C4: groove_funk_95.mid with drums is a groove pattern, chords_Dm_jazz.mid
\* without drums and with 2 tracks a chord progression, lead_melody.mid with
\* 1 track and no drums a melody, and funk_groove_drums.mid with drums a
\* groove pattern for every track count.
C4_NamedExamples ==
    catResult # None =>
        /\ (catName = "groove_funk_95.mid" /\ catDrums
                => catResult = "groove_patterns")
        /\ (catName = "chords_Dm_jazz.mid" /\ ~catDrums /\ catTracks = 2
                => catResult = "chord_progressions")
        /\ (catName = "lead_melody.mid" /\ ~catDrums /\ catTracks = 1
                => catResult = "melodies")
        /\ (catName = "funk_groove_drums.mid" /\ catDrums
                => catResult = "groove_patterns")

C4_Witness ==
    /\ catName = "funk_groove_drums.mid" /\ catDrums /\ catTracks = 1
    /\ catResult = "groove_patterns"

\* C5: a filename met by the local scan and the same filename met in the
\* remote listing get the same pattern identity.
C5_LocalRemoteSameIdentity ==
    (idLocal # None /\ idRemote # None) => idLocal = idRemote

\* the tokens C6 speaks of: those of the name without "groove_" and ".mid"
ClaimTokens(name) == Split(Replace(Replace(name, "groove_", ""), ".mid", ""), "_")

HasTempoToken(name) ==
    \E i \in 1..Len(ClaimTokens(name)) : IsTempoToken(ClaimTokens(name)[i])

HasStyleToken(name) ==
    \E i \in 1..Len(ClaimTokens(name)) : ClaimTokens(name)[i] \in StyleVocabulary

\* id is "{style}_{tempo}" of the last style token and the last tempo token
IsStyleTempo(id, name) ==
    LET t == ClaimTokens(name)
    IN  \E i, j \in 1..Len(t) :
            /\ t[i] \in StyleVocabulary
            /\ \A k \in (i + 1)..Len(t) : t[k] \notin StyleVocabulary
            /\ IsTempoToken(t[j])
            /\ \A k \in (j + 1)..Len(t) : ~IsTempoToken(t[k])
            /\ id = t[i] \o "_" \o t[j]

IsHashOf(id, name) == id = ShortHash(Replace(Replace(name, "groove_", ""), ".mid", ""))

\* C6 as stated: a name whose tokens hold a tempo in [60, 250] and a style
\* gets "{style}_{tempo}", every other name the short hash.
C6_StyleTempoWheneverBothTokens ==
    idRemote # None =>
        IF HasTempoToken(idName) /\ HasStyleToken(idName)
        THEN IsStyleTempo(idRemote, idName)
        ELSE IsHashOf(idRemote, idName)

\* C6 amended: "{style}_{tempo}" needs at least three tokens as well; with
\* fewer tokens, or without a tempo or a style token, the identity is the
\* short hash of the name stripped of "groove_" and ".mid". Both callers.
C6_StyleTempoNeedsThreeTokens ==
    /\ idRemote # None =>
        IF /\ Len(ClaimTokens(idName)) >= 3
           /\ HasTempoToken(idName) /\ HasStyleToken(idName)
        THEN IsStyleTempo(idRemote, idName)
        ELSE IsHashOf(idRemote, idName)
    /\ idLocal # None =>
        IF /\ Len(ClaimTokens(Lower(PathStem(idName)))) >= 3
           /\ HasTempoToken(Lower(PathStem(idName)))
           /\ HasStyleToken(Lower(PathStem(idName)))
        THEN IsStyleTempo(idLocal, Lower(PathStem(idName)))
        ELSE IsHashOf(idLocal, Lower(PathStem(idName)))

C6_Witness ==
    /\ idName = "groove_funk_95.mid"
    /\ idRemote = ShortHash("funk_95")
    /\ idLocal = ShortHash("funk_95")

\* the content of the source file a catalog entry came from
SourceContent(info) == disk[info.original_path]

\* C1: no two catalog entries whose source files differ in content have the
\* same integrated storage path.
C1_DistinctContentDistinctPath ==
    \A i, j \in 1..Len(processed_files) :
        SourceContent(processed_files[i]) # SourceContent(processed_files[j])
            => processed_files[i].integrated_path # processed_files[j].integrated_path

\* the path a numeric suffix n gives: "..._n.mid"
Suffixed(path, n) == SubSeq(path, 1, Len(path) - 4) \o "_" \o ToStr(n) \o ".mid"

\* entries i < j are the first and the second source mapped to one target path
FirstTwoOnTarget(i, j) ==
    LET a == processed_files[i]
        b == processed_files[j]
    IN  /\ i < j
        /\ SourceContent(a) # SourceContent(b)
        /\ TargetPath(a.original_path, a.analysis, a.category)
             = TargetPath(b.original_path, b.analysis, b.category)
        /\ \A k \in 1..(j - 1) :
              TargetPath(processed_files[k].original_path, processed_files[k].analysis,
                         processed_files[k].category)
                = TargetPath(a.original_path, a.analysis, a.category) => k = i

\* C2: when two distinct source files map to the same target path, the
\* second is stored under the path suffixed "_1.mid" and the first file's
\* stored path and content stay as they were.
C2_SecondGetsSuffixedPath ==
    \A i, j \in 1..Len(processed_files) :
        FirstTwoOnTarget(i, j) =>
            LET a == processed_files[i]
                b == processed_files[j]
            IN  /\ b.integrated_path = Suffixed(a.integrated_path, 1)
                /\ a.integrated_path \in DOMAIN storage
                /\ storage[a.integrated_path] = SourceContent(a)

\* process_all_files was entered and has returned (or was left)
ProcessingOver == fileIdx > 0 /\ (plan = <<>> \/ Head(plan) # "process_all")

FileParses(path) == FileFacts(disk[path]).parses

\* C9: a file whose analysis or integration fails does not end the batch:
\* the loop has recorded one analysis per file handled so far, and once
\* process_all_files is over every discovered file has its record (an error
\* record when it did not parse), every failed integration is in errors,
\* every other file is integrated, and the report saved is the full report.
C9_FailureNeverAbortsBatch ==
    /\ fileIdx > 0 => Len(integration_report.discovered) = fileIdx - 1
    /\ ProcessingOver =>
        /\ Len(integration_report.discovered) = Len(discovered_files)
        /\ \A i \in 1..Len(discovered_files) :
              /\ integration_report.discovered[i].path = discovered_files[i]
              /\ IsError(integration_report.discovered[i])
                    <=> ~FileParses(discovered_files[i])
              /\ i \in copyFailed =>
                    \E e \in 1..Len(integration_report.errors) :
                        integration_report.errors[e].file = discovered_files[i]
              /\ (FileParses(discovered_files[i]) /\ i \notin copyFailed) =>
                    \E k \in 1..Len(integration_report.processed) :
                        integration_report.processed[k].original_path
                            = discovered_files[i]
        /\ Len(integration_report.errors) = Cardinality(copyFailed)
        /\ reportFile = integration_report

\* the first file failed, a later one was integrated, the report is saved
C9_Witness ==
    /\ ProcessingOver
    /\ Len(discovered_files) >= 2
    /\ (IsError(integration_report.discovered[1]) \/ 1 \in copyFailed)
    /\ Len(processed_files) >= 1
    /\ reportFile = integration_report

\* the identities of a list of pattern_info records
PatternIds(patterns) == {patterns[i].pattern_id : i \in 1..Len(patterns)}

\* C7: find_missing_patterns leaves in the missing list exactly the remote
\* identities that are not local identities, the local identities being
\* those of the local files scanned; remote {funk_95, rock_140, jazz_110}
\* and local {funk_95} give {rock_140, jazz_110}.
C7_MissingIsRemoteMinusLocal ==
    [][FindMissingPatterns =>
         /\ existing_patterns' =
               {local_pattern_id(PathName(f)) :
                   f \in ScannedFiles(recFiles', LocalSearchPaths)}
         /\ PatternIds(missing_patterns')
               = PatternIds(ocean82_patterns') \ existing_patterns'
         /\ (/\ PatternIds(ocean82_patterns') = {"funk_95", "rock_140", "jazz_110"}
             /\ existing_patterns' = {"funk_95"})
               => PatternIds(missing_patterns') = {"rock_140", "jazz_110"}]_vars

C7_Witness ==
    /\ existing_patterns = {"funk_95"}
    /\ PatternIds(ocean82_patterns) = {"funk_95", "rock_140", "jazz_110"}
    /\ PatternIds(missing_patterns) = {"rock_140", "jazz_110"}
    /\ Len(missing_patterns) = 2

\* C8: a scan that reads the same local corpus and the same remote listing
\* as the scan of the run before it finds the same missing set.
C8_RescanSameMissingSet ==
    (/\ thisScan # Absent /\ lastScan # Absent
     /\ thisScan.local = lastScan.local
     /\ thisScan.remote = lastScan.remote)
        => thisScan.missing = lastScan.missing

\* a second scan of unchanged inputs, after the first run downloaded a file
C8_Witness ==
    /\ thisScan # Absent /\ lastScan # Absent
    /\ thisScan.local = lastScan.local
    /\ thisScan.remote = lastScan.remote
    /\ thisScan.missing = lastScan.missing
    /\ thisScan.missing # {}
    /\ \E f \in recFiles : Under(f, NewPatternsPath)

\* download_missing_patterns was entered and has returned (or was left)
DownloadOver ==
    dlIdx > 0 /\ (recPlan = <<>> \/ Head(recPlan) \notin {"download", "blocked"})

ClaimMin(a, b) == IF a <= b THEN a ELSE b

C11_AttemptsAtMostCap == Len(attempted) <= args_download

\* C12: once the root listing request has failed, the run goes no further:
\* it computes no missing set, enters no download and writes no report.
C12_RootFailureAbortsRun ==
    [][("" \in listing_errors) =>
          ~(FindMissingPatterns \/ StartDownload \/ DownloadItem
              \/ GenerateReport)]_vars

\* C19: whatever a remote request does, the run finishes, and a run whose
\* flags select the download step has then written its report.
C19_RunFinishes ==
    <>(/\ recPlan = <<>>
       /\ dlLimit > 0 => recReport # Absent)

\* the paths of the MIDI files the listing of the remote directory dir holds
MidiPathsOfDir(dir) ==
    {(IF dir # "" THEN dir \o "/" ELSE "") \o remoteTree[dir][i].name :
        i \in {j \in 1..Len(remoteTree[dir]) :
                  /\ remoteTree[dir][j].type = "file"
                  /\ EndsWith(remoteTree[dir][j].name, ".mid")}}

\* C20: a fetch that returns with the root listed has logged every
\* sub-directory whose listing failed, and has added every MIDI file of the
\* root and of every other directory to the remote pattern list, once.
C20_FailedDirSkippedOnly ==
    [][(/\ FetchOcean82Patterns
        /\ recPlan' # Blocked
        /\ "" \notin listing_errors') =>
          /\ listing_errors' \subseteq DirsOf(remoteTree)
          /\ \A d \in DOMAIN remoteTree \ listing_errors' :
                \A q \in MidiPathsOfDir(d) :
                   Cardinality({k \in 1..Len(ocean82_patterns') :
                                   ocean82_patterns'[k].path = q}) = 1
          /\ \A k \in 1..Len(ocean82_patterns') :
                \E d \in DOMAIN remoteTree \ listing_errors' :
                   ocean82_patterns'[k].path \in MidiPathsOfDir(d)]_vars

\* the first sub-directory failed, the one listed after it was traversed
C20_Witness ==
    /\ listing_errors = {"rock"}
    /\ {ocean82_patterns[k].path : k \in 1..Len(ocean82_patterns)}
          = {"funk_a_95.mid", "jazz/jazz_c_110.mid"}

\* C15: integration leaves every source file where it was: no file that
\* exists before integrate_new_patterns is gone after it.
C15_IntegrationKeepsSource ==
    [][IntegrateNewPatterns => recFiles \subseteq recFiles']_vars

\* the sum of the counts of a distribution
RECURSIVE DistTotal(_)
DistTotal(d) ==
    IF DOMAIN d = {} THEN 0
    ELSE LET k == CHOOSE x \in DOMAIN d : TRUE
         IN  d[k] + DistTotal([x \in DOMAIN d \ {k} |-> d[x]])

\* every key of distribution d is the key of an entry of this run, and its
\* count is the number of this run's entries with that key
CountsThisRun(d, keys) ==
    \A k \in DOMAIN d :
        /\ d[k] >= 1
        /\ d[k] = Cardinality({i \in 1..Len(keys) : keys[i] = k})

\* C16: generate_catalog writes a catalog whose total_files is the number
\* of entries integrated in this run, whose four distributions each sum to
\* total_files, and whose keys and counts all come from this run's entries,
\* whatever the catalog file held before.
C16_CatalogRebuiltEachRun ==
    [][GenerateCatalog =>
         LET c == catalogFile'
             n == Len(processed_files)
         IN  /\ c.total_files = n
             /\ n = Len(integration_report.processed)
             /\ DistTotal(c.categories) = n
             /\ DistTotal(c.tempo_distribution) = n
             /\ DistTotal(c.time_signature_distribution) = n
             /\ DistTotal(c.track_count_distribution) = n
             /\ CountsThisRun(c.categories,
                    [i \in 1..n |-> processed_files[i].category])
             /\ CountsThisRun(c.tempo_distribution,
                    [i \in 1..n |-> TempoRange(processed_files[i])])
             /\ CountsThisRun(c.time_signature_distribution,
                    [i \in 1..n |-> processed_files[i].analysis.time_signature])
             /\ CountsThisRun(c.track_count_distribution,
                    [i \in 1..n |-> TrackRange(processed_files[i])])]_vars

\* a catalog of two entries of two categories has replaced an earlier one
C16_Witness ==
    /\ oldCatalog = PreviousCatalog
    /\ catalogFile # oldCatalog
    /\ catalogFile.total_files = 2
    /\ DOMAIN catalogFile.categories = {"melodies", "groove_patterns"}
    /\ DOMAIN catalogFile.tempo_distribution = {"120-129", "90-99"}

\* the file's extension is .mid or .midi in some mix of cases
HasMidiExtension(path) ==
    \/ EndsWith(Lower(PathName(path)), ".mid")
    \/ EndsWith(Lower(PathName(path)), ".midi")

\* C17: after discover_all_midi_files, every non-empty file under a search
\* path whose extension is .mid or .midi in any mix of cases is in the
\* discovered list.
C17_DiscoveryIgnoresCase ==
    [][Discover =>
         \A f \in SourcePaths :
            (/\ Discoverable(f)
             /\ \E i \in 1..Len(SearchPaths) : UnderSearchPath(f, i)
             /\ HasMidiExtension(f))
               => \E k \in 1..Len(discovered_files') : discovered_files'[k] = f]_vars

\* the validator has judged file_path and put it in an invalid list
ListedInvalid(file_path) ==
    \E i \in 1..Len(AllInvalid) : AllInvalid[i].path = file_path

\* C13: once a validation run has walked its directories, every file that
\* integrate_midi_file copied under storage/midi, groove patterns included,
\* has been parsed again, and is reported valid if and only if it has at least
\* one note-on event and lasts at least the minimum duration.
C13_IntegratedCopyRevalidated ==
    (vPlan # <<>> /\ Head(vPlan) = "catalogs")
       => \A q \in DOMAIN vFiles \cap IntegratedPaths :
             /\ q \in vParsed
             /\ ~ListedInvalid(q) <=>
                   (/\ FileFacts(vFiles[q]).note_count > 0
                    /\ FileFacts(vFiles[q]).length_ms >= 100)

\* C14: a run of the validator that was not given --fix removes no file.
C14_ValidationNeverDeletes ==
    (vArgs # Absent /\ ~vArgs.fix) => vRemoved = {}

\* C18: the fix-filenames command run again over what a first run left renames
\* no file, every name sanitize_filename returns being one it leaves alone.
C18_SecondRunRenamesNothing ==
    fixRuns >= 2 => renamed_files = <<>>

\* the delta-times of the first i messages of a track, added up
TrackTime(track, i) == SumOf([j \in 1..i |-> track[j].time])

\* for the messages of one type in a track, in order, the time each has in
\* its own track
OwnTimes(track, type) ==
    LET at == SelectSeq([i \in 1..Len(track) |-> i],
                        LAMBDA i : track[i].type = type)
    IN  [k \in 1..Len(at) |-> TrackTime(track, at[k])]

\* the same for the tracks of a file, one after the other
FileTimes(tracks, type) ==
    Concat([t \in 1..Len(tracks) |-> OwnTimes(tracks[t], type)])

TimesOf(entries) == [i \in 1..Len(entries) |-> entries[i].time]

\* C21: the time an analyzer records for a tempo, time-signature or
\* key-signature event is the sum of the delta-times of the event's own track
\* up to and including the event, in the pipeline analyzer, the groove
\* analyzer and the catalog analyzer.
C21_EventTimeIsOwnTrackSum ==
    /\ procAnalysis # Absent =>
          /\ TimesOf(procAnalysis.tempo_changes)
                = FileTimes(midTracks, "set_tempo")
          /\ TimesOf(procAnalysis.time_signatures)
                = FileTimes(midTracks, "time_signature")
          /\ TimesOf(procAnalysis.key_signatures)
                = FileTimes(midTracks, "key_signature")
    /\ grooveAnalysis # Absent =>
          /\ TimesOf(grooveAnalysis.tempo_changes)
                = FileTimes(midTracks, "set_tempo")
          /\ TimesOf(grooveAnalysis.time_signatures)
                = FileTimes(midTracks, "time_signature")
    /\ catMetadata # Absent =>
          \A t \in 1..Len(midTracks) :
             /\ TimesOf(catMetadata.tracks[t].tempo_changes)
                   = OwnTimes(midTracks[t], "set_tempo")
             /\ TimesOf(catMetadata.tracks[t].time_signatures)
                   = OwnTimes(midTracks[t], "time_signature")
             /\ TimesOf(catMetadata.tracks[t].key_signatures)
                   = OwnTimes(midTracks[t], "key_signature")

\* some message of some track is on the percussion channel
OnPercussionChannel(tracks) ==
    \E t \in 1..Len(tracks) : \E i \in 1..Len(tracks[t]) :
       HasChannel(tracks[t][i]) /\ tracks[t][i].channel = 9

\* C22: has_drums of the pipeline analyzer's analysis is true if and only if
\* some track has a message of any kind on channel 9.
C22_HasDrumsIffChannelNine ==
    procAnalysis # Absent =>
       (procAnalysis.has_drums <=> OnPercussionChannel(midTracks))

\* the BPM of the first set_tempo message of the file, 120 when it has none
FirstTempo(tracks) ==
    LET tempos == SelectSeq(Concat(tracks), LAMBDA msg : msg.type = "set_tempo")
    IN  IF tempos # <<>> THEN tempo2bpm(tempos[1].tempo) ELSE 12000

\* C24: every analyzer reports as estimated tempo the BPM of the file's first
\* tempo event, or 120 when there is none.
C24_EstimatedTempoIsFirstTempo ==
    /\ procAnalysis # Absent =>
          procAnalysis.estimated_tempo = FirstTempo(midTracks)
    /\ grooveAnalysis # Absent =>
          grooveAnalysis.estimated_tempo = FirstTempo(midTracks)
    /\ catMetadata # Absent =>
          catMetadata.estimated_tempo = FirstTempo(midTracks)

\* the file parses, has a note-on with velocity > 0, lasts at least 0.1 s and
\* has a track
SoundFile(content) ==
    /\ FileFacts(content).parses
    /\ FileFacts(content).note_count > 0
    /\ FileFacts(content).length_ms >= 100
    /\ FileFacts(content).num_tracks >= 1

\* a section of the report tallies the files walked: the sound ones counted
\* valid, the others listed invalid, and the two adding up to the total
Tallies(section, walked) ==
    /\ section.total = Cardinality(walked)
    /\ section.valid = Cardinality({q \in walked : SoundFile(vFiles[q])})
    /\ {section.invalid[i].path : i \in 1..Len(section.invalid)}
          = {q \in walked : ~SoundFile(vFiles[q])}
    /\ section.valid + Len(section.invalid) = section.total

\* C23: when a category has been validated, a file of it is counted valid
\* exactly when it parses, has a note-on with velocity > 0, lasts at least
\* 0.1 s and has a track, every other file's record is in the invalid list,
\* and valid + |invalid| = total.
C23_ValidOrListedInvalid ==
    [][/\ ValidateTemplates =>
             Tallies(validation_report'.templates,
                     RGlob(TemplatesDir, ".mid") \cup RGlob(TemplatesDir, ".midi"))
       /\ ValidateGrooveDataset =>
             Tallies(validation_report'.groove_dataset, RGlob(GrooveDir, ".mid"))
       /\ ValidateGeneratedFiles =>
             Tallies(validation_report'.generated, Glob(GeneratedDir, ".mid"))
       /\ ValidateChordSets =>
             Tallies(validation_report'.chord_sets, RGlob(ChordSetsDir, ".mid"))]_vars

\* templates has been validated with one file counted valid and one listed
\* invalid that parses
C23_Witness ==
    /\ vPlan # <<>> /\ Head(vPlan) = "groove_dataset"
    /\ validation_report.templates.total = 2
    /\ validation_report.templates.valid = 1
    /\ Len(validation_report.templates.invalid) = 1
    /\ validation_report.templates.invalid[1].valid

\* C27: in the sums the success rate of a full validation run is computed
\* from, every file is counted once: the total is the number of files parsed.
C27_EachFileCountedOnce ==
    vReportFile # Absent =>
       /\ TotalFiles(vReportFile) = Cardinality(vParsed)
       /\ TotalValid(vReportFile) <= Cardinality(vParsed)

\* C28: fix_invalid_files removes only files whose record has valid = False,
\* which are the files that do not parse; every other file stays as it was,
\* and with no validation done before, nothing is removed.
C28_FixRemovesOnlyCorrupt ==
    [][FixInvalidFiles =>
         /\ \A q \in DOMAIN vFiles \ DOMAIN vFiles' :
               ListedInvalid(q) /\ ~FileFacts(vFiles[q]).parses
         /\ \A q \in DOMAIN vFiles' :
               q \in DOMAIN vFiles /\ vFiles'[q] = vFiles[q]
         /\ AllInvalid = <<>> => vFiles' = vFiles]_vars

\* a corrupt file has been removed and a file listed for its issues is
\* still there
C28_Witness ==
    /\ vPlan # <<>> /\ Head(vPlan) = "regenerate"
    /\ vRemoved # {}
    /\ \E q \in DOMAIN vFiles : ListedInvalid(q)

\* C29: in one run of the processor, whatever flags it is given, no source
\* file is in discovered_files twice, none is integrated twice, and a catalog
\* written counts no file twice.
C29_EachSourceFileOnce ==
    /\ \A i, j \in 1..Len(discovered_files) :
          discovered_files[i] = discovered_files[j] => i = j
    /\ \A i, j \in 1..Len(processed_files) :
          processed_files[i].original_path = processed_files[j].original_path
             => i = j
    /\ (catalogFile # Absent /\ catalogFile # oldCatalog) =>
          catalogFile.total_files
             <= Cardinality({discovered_files[i] :
                                i \in 1..Len(discovered_files)})

\* C30: when a run of the processor is over, the file at the integrated_path
\* of every entry of processed_files exists and holds the content of the
\* entry's original_path, and a catalog written by the run has as total_files
\* the number of distinct integrated files.
C30_CatalogAgreesWithStorage ==
    plan = <<>> =>
       /\ \A i \in 1..Len(processed_files) :
             /\ processed_files[i].integrated_path \in DOMAIN storage
             /\ storage[processed_files[i].integrated_path]
                   = disk[processed_files[i].original_path]
       /\ (catalogFile # Absent /\ catalogFile # oldCatalog) =>
             catalogFile.total_files
                = Cardinality({processed_files[i].integrated_path :
                                  i \in 1..Len(processed_files)})

\* keyword is in the lower-cased name of the file or of its directory
Mentions(keyword) ==
    Contains(Lower(styName), keyword) \/ Contains(Lower(styParent), keyword)

\* the rows of the style table one of whose keywords is mentioned
MatchingRows ==
    {r \in 1..Len(StyleKeywords) :
        \E k \in 1..Len(StyleKeywords[r].keywords) :
           Mentions(StyleKeywords[r].keywords[k])}

\* C25: the style is that of the first row of the table one of whose keywords
\* is a substring of the file name or of the parent directory's name; only
\* when no row matches it is the tempo band: under 80 ballad, from 80 medium,
\* from 100 upbeat, from 140 fast. Nothing else enters the result.
C25_FirstKeywordStyleElseTempoBand ==
    styResult # None =>
       IF MatchingRows # {}
       THEN \E r \in MatchingRows :
               /\ \A q \in MatchingRows : r <= q
               /\ styResult = StyleKeywords[r].style
       ELSE /\ TempoOf(styAnalysis) < 8000 => styResult = "ballad"
            /\ (TempoOf(styAnalysis) >= 8000 /\ TempoOf(styAnalysis) < 10000)
                  => styResult = "medium"
            /\ (TempoOf(styAnalysis) >= 10000 /\ TempoOf(styAnalysis) < 14000)
                  => styResult = "upbeat"
            /\ TempoOf(styAnalysis) >= 14000 => styResult = "fast"

\* a file whose name has keywords of two rows, and whose directory has one of
\* the later row, gets the earlier row's style, whatever its tempo
C25_Witness ==
    /\ styName = "swing_salsa.mid" /\ styParent = "Latin Grooves"
    /\ styAnalysis = [estimated_tempo |-> 7999]
    /\ styResult = "jazz"

\* where integrate_new_patterns puts the downloaded file of a remote item
IntegratedCopy(name) ==
    "storage/midi/templates/groove-patterns/" \o StyleDir(name) \o "/" \o name

\* C26: a remote file that an earlier run downloaded and integrated is not
\* reported missing by the find_missing_patterns of a later run over the same
\* remote listing.
C26_IntegratedNoLongerMissing ==
    [][FindMissingPatterns =>
         \A i \in 1..Len(ocean82_patterns) :
            IntegratedCopy(ocean82_patterns[i].name) \in recFiles
               => ocean82_patterns[i].pattern_id
                     \notin PatternIds(missing_patterns')]_vars

=============================================================================
